---- MODULE Spec2Model ----
(***************************************************************************)
(* speech-provider: the response cache of src/utils/cachedFetch.ts         *)
(* (cachedFetch over an IndexedDB object store) modelled as a state        *)
(* machine.  Each caller runs cachedFetch as a sequence of steps, one per  *)
(* await point of the function; the clock, the network and the store       *)
(* answer nondeterministically.                                            *)
(***************************************************************************)
EXTENDS Integers, Sequences, FiniteSets, TLC

\* ------------------------------------------------------------------ bounds
MaxCalls == 2          \* cachedFetch invocations started in one behaviour
MaxTicks == 2          \* clock advances in one behaviour

\* ------------------------------------------------------- program constants
DefaultMaxAge == 3600  \* cachedFetch.ts:49  maxAge = 3600
MsPerSecond == 1000    \* cachedFetch.ts:77  (Date.now() - timestamp) / 1000
RebuiltStatus == 200   \* cachedFetch.ts:80  new Response(blob, {headers}): no status given

Procs == {1, 2}        \* concurrent callers (tasks of the single-threaded event loop)

\* Clock advances seen between two steps, in milliseconds.
Deltas == {2000, 3599000}

\* ------------------------------------------------------------ JS values
Undefined == [tag |-> "undefined", value |-> 0]
Null == [tag |-> "null", value |-> 0]
Num(n) == [tag |-> "number", value |-> n]

NoBody == [kind |-> "undefined", data |-> ""]
StringBody(s) == [kind |-> "string", data |-> s]
BlobBody(s) == [kind |-> "Blob", data |-> s]

Hdr(n, v) == [name |-> n, value |-> v]

\* ---------------------------------------------------- header merging, L50-54
\* Index of header name n in object o (a sequence of name/value pairs in
\* insertion order), 0 when absent.
RECURSIVE IndexOfName(_, _, _)
IndexOfName(o, n, i) ==
  IF i > Len(o) THEN 0
  ELSE IF o[i].name = n THEN i ELSE IndexOfName(o, n, i + 1)

\* o[n] = v on a JS object: an existing property keeps its position, a new
\* one is appended.
SetProperty(o, n, v) ==
  LET i == IndexOfName(o, n, 1)
  IN IF i = 0 THEN Append(o, Hdr(n, v)) ELSE [o EXCEPT ![i].value = v]

RECURSIVE ObjectAssign(_, _)
ObjectAssign(target, source) ==
  IF source = <<>> THEN target
  ELSE ObjectAssign(SetProperty(target, Head(source).name, Head(source).value),
                    Tail(source))

\* const headers = { ...fetchOptions.headers }; Object.assign(headers, additionalHeaders)
MergeHeaders(headers, additionalHeaders) ==
  ObjectAssign(ObjectAssign(<<>>, headers), additionalHeaders)

\* ------------------------------------------------------ cache key, L65-70
\* JSON text as a sequence of tokens; a string literal is the three tokens
\* quote, characters, quote.
JSONString(s) == <<"\"", s, "\"">>

RECURSIVE JSONMembers(_)
JSONMembers(o) ==
  IF o = <<>> THEN <<>>
  ELSE JSONString(Head(o).name) \o <<":">> \o JSONString(Head(o).value)
       \o (IF Tail(o) = <<>> THEN <<>> ELSE <<",">> \o JSONMembers(Tail(o)))

\* JSON.stringify of a plain object of string properties: own properties in
\* insertion order.
JSONObject(o) == <<"{">> \o JSONMembers(o) \o <<"}">>

\* JSON.stringify of a request body: a string is quoted, null is null, a
\* Blob (no own enumerable properties) is {}.
JSONBody(body) ==
  CASE body.kind = "string" -> JSONString(body.data)
    [] body.kind = "null" -> <<"null">>
    [] OTHER -> <<"{", "}">>

\* fetchOptions.method || "GET"   ("" stands for an absent method)
EffectiveMethod(method) == IF method = "" THEN "GET" ELSE method

\* JSON.stringify({url, method, headers, body}); an undefined body is omitted.
CacheKey(url, method, headers, body) ==
  <<"{">> \o JSONString("url") \o <<":">> \o JSONString(url)
  \o <<",">> \o JSONString("method") \o <<":">> \o JSONString(EffectiveMethod(method))
  \o <<",">> \o JSONString("headers") \o <<":">> \o JSONObject(headers)
  \o (IF body.kind = "undefined" THEN <<>>
      ELSE <<",">> \o JSONString("body") \o <<":">> \o JSONBody(body))
  \o <<"}">>

\* --------------------------------------------------- cache options, L48-57
\* Mutant: an omitted maxAge is taken as 0 instead of 3600.
EffectiveMaxAgeNoDefault(maxAge) == IF maxAge.tag = "undefined" THEN Num(0) ELSE maxAge

\* const { maxAge = 3600, skipCache = false } = cacheOptions
EffectiveMaxAge(maxAge) == IF maxAge.tag = "undefined" THEN Num(DefaultMaxAge) ELSE maxAge

\* Mutant: the disable test forgets maxAge === 0.
CacheDisabledIgnoresZero(maxAge, skipCache) ==
  \/ skipCache
  \/ maxAge.tag = "null"

\* if (skipCache || maxAge === null || maxAge === 0)
CacheDisabled(maxAge, skipCache) ==
  \/ skipCache
  \/ maxAge.tag = "null"
  \/ (maxAge.tag = "number" /\ maxAge.value = 0)

\* Mutant: the freshness comparison is reversed.
IsFreshInverted(timestamp, nowMs, maxAge) == (nowMs - timestamp) >= maxAge * MsPerSecond

\* Mutant: an entry aged exactly maxAge still counts as fresh.
IsFreshInclusive(timestamp, nowMs, maxAge) == (nowMs - timestamp) <= maxAge * MsPerSecond

\* age = (Date.now() - entry.timestamp) / 1000;  age < maxAge
\* (the division is exact over the reals, so the test is on milliseconds)
IsFresh(timestamp, nowMs, maxAge) == (nowMs - timestamp) < maxAge * MsPerSecond

\* ------------------------------------------------ responses, L80-82, L93-100
\* Header names in the order Headers.entries() yields them (sorted by name).
HeaderNames == <<"content-type", "x-request-id">>

\* What the server can answer.  headers is the response's header list as
\* entries() iterates it; site names the fetch call that produced the response.
ServerAnswers ==
  { [status |-> 200, headers |-> <<Hdr("content-type", "audio/mpeg")>>, body |-> "mp3"],
    [status |-> 404,
     headers |-> <<Hdr("content-type", "application/json"), Hdr("x-request-id", "r1")>>,
     body |-> "not found"] }

NetworkResponse(answer, site) ==
  [status |-> answer.status, headers |-> answer.headers, body |-> answer.body, site |-> site]

NetworkError(site) == [name |-> "TypeError", site |-> site]
StoreError(site) == [name |-> "DOMException", site |-> site]

\* Object.fromEntries(headers.entries()): the header list as a name -> value map.
ObjectFromEntries(entries) ==
  [n \in {entries[i].name : i \in 1..Len(entries)} |->
     (CHOOSE e \in {entries[i] : i \in 1..Len(entries)} : e.name = n).value]

\* response.clone().blob(): the body bytes, typed by the Content-Type header.
ResponseBlob(response) ==
  LET h == ObjectFromEntries(response.headers)
  IN [bytes |-> response.body,
      type |-> IF "content-type" \in DOMAIN h THEN h["content-type"] ELSE ""]

\* The header list of new Response(blob, {headers}): the given map, plus a
\* content-type taken from a typed blob when the map has none, in entries() order.
RECURSIVE HeaderList(_, _)
HeaderList(map, i) ==
  IF i > Len(HeaderNames) THEN <<>>
  ELSE (IF HeaderNames[i] \in DOMAIN map
        THEN <<Hdr(HeaderNames[i], map[HeaderNames[i]])>> ELSE <<>>)
       \o HeaderList(map, i + 1)

\* Mutant: the rebuilt response is given no headers.
NewResponseDropsHeaders(blob, headers) ==
  [status |-> RebuiltStatus,
   headers |-> IF blob.type /= "" THEN <<Hdr("content-type", blob.type)>> ELSE <<>>,
   body |-> blob.bytes, site |-> "L80"]

\* new Response(entry.blob, { headers: entry.headers })
NewResponse(blob, headers) ==
  LET filled == IF blob.type /= "" /\ "content-type" \notin DOMAIN headers
                THEN ("content-type" :> blob.type) @@ headers
                ELSE headers
  IN [status |-> RebuiltStatus, headers |-> HeaderList(filled, 1),
      body |-> blob.bytes, site |-> "L80"]

\* The CacheEntry written at L97-101.  from, putAt, version and writtenWith
\* (the maxAge of the writing call) are history
\* fields (the captured network response, the instant the put was applied,
\* how many puts the key has received); the program reads only timestamp,
\* blob and headers.
NewEntry(response, blob, nowMs) ==
  [timestamp |-> nowMs, blob |-> blob, headers |-> ObjectFromEntries(response.headers),
   from |-> response, putAt |-> -1, version |-> 0, writtenWith |-> -1]

\* The result of store.get for a key the store does not hold (undefined).
Absent == [timestamp |-> -1, blob |-> [bytes |-> "", type |-> ""], headers |-> <<>>,
           from |-> [status |-> 0, headers |-> <<>>, body |-> "", site |-> ""],
           putAt |-> -1, version |-> 0, writtenWith |-> -1]

\* ----------------------------------------------- the object store, L135-157
\* Mutant: a get for a key the store does not hold fails the request.
StoreGetRejectsMissing(s, key) ==
  IF key \in DOMAIN s THEN [ok |-> TRUE, value |-> s[key]]
  ELSE [ok |-> FALSE, value |-> Absent]

\* store.get(key) on a working store: onsuccess with request.result, which is
\* undefined for a key the store does not hold.
StoreGet(s, key) ==
  [ok |-> TRUE, value |-> IF key \in DOMAIN s THEN s[key] ELSE Absent]

\* Mutant: a lookup removes the entry it read.
StoreAfterReadEvicts(s, key, nowMs) ==
  [k \in DOMAIN s \ {key} |-> s[k]]

\* Mutant: a lookup refreshes the timestamp of the entry it read.
StoreAfterReadTouches(s, key, nowMs) ==
  IF key \in DOMAIN s THEN [s EXCEPT ![key].timestamp = nowMs] ELSE s

\* The store after getFromCache: the transaction is "readonly" and only gets.
StoreAfterRead(s, key, nowMs) == s

\* Mutant: the write keeps an entry the key already has (add instead of put).
StoreAddIfAbsent(s, key, e) ==
  IF key \in DOMAIN s THEN s ELSE (key :> e) @@ s

\* store.put(entry, key): the entry replaces whatever the key held.
StorePut(s, key, e) == (key :> e) @@ s

\* The entry as the store receives it, with its history fields filled in.
Stamped(e, s, key, nowMs, writerMaxAge) ==
  [e EXCEPT !.putAt = nowMs,
            !.version = 1 + (IF key \in DOMAIN s THEN s[key].version ELSE 0),
            !.writtenWith = writerMaxAge]

\* ------------------------------------------------------------- the inputs
ApiKey == Hdr("xi-api-key", "k")
ContentType == Hdr("Content-Type", "application/json")

\* The (url, fetchOptions, additionalHeaders) triples callers pass.
Requests ==
  { [url |-> "/text-to-speech/v1", method |-> "POST", headers |-> <<ApiKey, ContentType>>,
     additionalHeaders |-> <<>>, body |-> StringBody("hello")],
    [url |-> "/voices?language=en", method |-> "", headers |-> <<ApiKey>>,
     additionalHeaders |-> <<>>, body |-> NoBody] }

\* The cacheOptions callers pass: maxAge omitted, null, 0, or a number of seconds.
CacheOptions ==
  { [maxAge |-> m, skipCache |-> FALSE] : m \in {Null, Num(0), Num(2), Num(3600)} }
  \cup { [maxAge |-> Undefined, skipCache |-> TRUE] }

NoResponse == [status |-> 0, headers |-> <<>>, body |-> "", site |-> ""]
NoError == [name |-> "", site |-> ""]
NoRequest == [url |-> "", method |-> "", headers |-> <<>>, additionalHeaders |-> <<>>,
              body |-> NoBody]
\* No utterance has been constructed yet.
NoUtterance ==
  [created |-> FALSE, option |-> Undefined, cacheMaxAge |-> Undefined,
   normalizeVolume |-> FALSE, audio |-> 0, audioContext |-> 0,
   onStartCallback |-> 0, onEndCallback |-> 0]

\* normalizeAudioBuffer has not been called yet.
NoNormalization == [called |-> FALSE]

\* The page has not been set up: no platform voices, no call of the browser
\* provider yet.
NoBrowserCall == [platform |-> FALSE, synth |-> FALSE, voices |-> <<>>, called |-> ""]

\* getVoices of the ElevenLabs provider has not been called yet.
NoListing == [called |-> FALSE]

\* No callback has been invoked yet.
NoInvocation == [kind |-> "", cb |-> 0]

\* The BrowserVoiceProvider as constructed (L9-10), on a page not yet loaded:
\* its two fields, the page's speechSynthesis (whether it exists, whether it
\* has onvoiceschanged, its voice list, its voiceschanged
\* listeners), the 2 s timer, and the getVoices calls made (history: listeners
\* ever registered and removed, and on whose behalf the last was removed).
NoLoader ==
  [page |-> "none", synth |-> FALSE, hasEvent |-> FALSE, voices |-> <<>>,
   voicesInitialized |-> FALSE, voicesReadyPromise |-> "null",
   listeners |-> 0, registered |-> 0, removed |-> 0, by |-> "",
   timer |-> "none", calls |-> <<>>]

\* window.speechSynthesis on a page not yet loaded: whether it exists, its
\* queue of utterances (the head is the one being spoken), and history: the
\* start() and stop() calls made so far, the last of them and the utterance
\* object it was called on, and the queue the last stop() found.
NoSpeech ==
  [page |-> "none", synth |-> FALSE, queue |-> <<>>, ops |-> 0,
   last |-> [op |-> "", by |-> 0], found |-> <<>>]

Pending == [kind |-> "pending", response |-> NoResponse, error |-> NoError]
Resolved(r) == [kind |-> "resolved", response |-> r, error |-> NoError]
Rejected(e) == [kind |-> "rejected", response |-> NoResponse, error |-> e]

\* ---------------------------------------------------------------- state
VARIABLES
  now,             \* Date.now(), milliseconds since the first state
  ticks,           \* clock advances so far
  calls,           \* cachedFetch invocations started so far
  store,           \* the "responses" object store: key -> CacheEntry
  pc,              \* per caller: the await it is suspended at, or idle / done
  args,            \* per caller: url, fetchOptions, additionalHeaders
  cacheOptions,    \* per caller: options.cacheOptions
  headers,         \* per caller: the merged headers object (L50-54)
  cacheKey,        \* per caller: L65
  cachedResponse,  \* per caller: what getFromCache resolved with (L74)
  readAt,          \* per caller: Date.now() at L77
  response,        \* per caller: the response of the fetch at L87
  entry,           \* per caller: the CacheEntry handed to cacheResponse (L97)
  caught,          \* per caller: the error the catch block received (L104)
  result,          \* per caller: how the promise cachedFetch returned settled
  netCount,        \* per caller: fetch calls issued by this invocation
  dbOpens,         \* per caller: indexedDB.open calls of this invocation
  storeGets,       \* per caller: store.get calls of this invocation
  storePuts,       \* per caller: store.put calls of this invocation
  overlapped,      \* per caller (history): where the other callers stood when it was called
  utt,             \* the ElevenLabsUtterance: its fields, and the provider option it came from
  upc,             \* per caller: where its start() invocation is suspended, or none
  inv,             \* per caller: the number of its start() invocation
  audios,          \* Audio elements by the invocation that created them: playback state
  contexts,        \* AudioContexts by the invocation that created them: running / closed
  sources,         \* buffer sources by the invocation that created them
  stopAt,          \* history: the value of calls when stop() was last called, -1 if never
  afterStop,       \* history: callbacks invoked after a stop() with no start() since
  thrown,          \* per caller: the error its start() invocation rejected with
  invoked,         \* history: the callback invoked last, and for which event
  assigned,        \* history: the callback last passed to each setter
  events,          \* history, per start() invocation: the callbacks its playback invoked
  norm,            \* the last normalizeAudioBuffer call: its buffer before and after, its result
  browser,         \* the platform's voices and the last BrowserVoiceProvider call
  listing,         \* the last ElevenLabsVoiceProvider.getVoices call
  selection,       \* the providers getVoiceProvider returned, in call order
  loader,          \* the BrowserVoiceProvider's voice loading, and its getVoices calls
  speech           \* window.speechSynthesis: its queue, and the browser utterances

vars == <<now, ticks, calls, store, pc, args, cacheOptions, headers, cacheKey,
          cachedResponse, readAt, response, entry, caught, result,
          netCount, dbOpens, storeGets, storePuts, overlapped,
          utt, upc, inv, audios, contexts, sources, stopAt, afterStop,
          thrown, invoked, assigned, events, norm, browser, listing,
          selection, loader, speech>>

\* The state of the pure functions and of the voice listings.
auxVars == <<selection, loader, speech>>
libVars == <<norm, browser, listing, selection, loader, speech>>

uttVars == <<utt, upc, inv, audios, contexts, sources, stopAt, afterStop,
             thrown, invoked, assigned, events>>

locals == <<args, cacheOptions, headers, cacheKey, cachedResponse, readAt, response,
            entry, caught, overlapped>>
counters == <<netCount, dbOpens, storeGets, storePuts>>
world == <<now, ticks, calls, store>>

\* Mutant: the age of an entry is compared with the maxAge of the call that
\* wrote it.
maxAgeOfWriter(p) ==
  IF cacheKey[p] \in DOMAIN store
  THEN Num(store[cacheKey[p]].writtenWith)
  ELSE EffectiveMaxAge(cacheOptions[p].maxAge)

\* L49: the maxAge this call destructured from its own cacheOptions.
maxAge(p) == EffectiveMaxAge(cacheOptions[p].maxAge)

Init ==
  /\ now = 0 /\ ticks = 0 /\ calls = 0
  /\ store = <<>>
  /\ pc = [p \in Procs |-> "idle"]
  /\ args = [p \in Procs |-> NoRequest]
  /\ cacheOptions = [p \in Procs |-> [maxAge |-> Undefined, skipCache |-> FALSE]]
  /\ headers = [p \in Procs |-> <<>>]
  /\ cacheKey = [p \in Procs |-> <<>>]
  /\ cachedResponse = [p \in Procs |-> Absent]
  /\ readAt = [p \in Procs |-> 0]
  /\ response = [p \in Procs |-> NoResponse]
  /\ entry = [p \in Procs |-> Absent]
  /\ caught = [p \in Procs |-> NoError]
  /\ result = [p \in Procs |-> Pending]
  /\ netCount = [p \in Procs |-> 0]
  /\ dbOpens = [p \in Procs |-> 0]
  /\ storeGets = [p \in Procs |-> 0]
  /\ storePuts = [p \in Procs |-> 0]
  /\ overlapped = [p \in Procs |-> {}]
  /\ utt = NoUtterance
  /\ upc = [p \in Procs |-> "none"]
  /\ inv = [p \in Procs |-> 0]
  /\ audios = <<>>
  /\ contexts = <<>>
  /\ sources = <<>>
  /\ stopAt = -1
  /\ afterStop = {}
  /\ thrown = [p \in Procs |-> NoError]
  /\ invoked = NoInvocation
  /\ assigned = [start |-> 0, end |-> 0]
  /\ events = <<>>
  /\ norm = NoNormalization
  /\ browser = NoBrowserCall
  /\ listing = NoListing
  /\ selection = <<>>
  /\ loader = NoLoader
  /\ speech = NoSpeech

\* The clock moves between any two steps, by one of the given amounts.
TickBy(deltas) ==
  /\ ticks < MaxTicks
  /\ \E d \in deltas : now' = now + d
  /\ ticks' = ticks + 1
  /\ UNCHANGED <<calls, store, pc, result>>
  /\ UNCHANGED locals /\ UNCHANGED counters /\ UNCHANGED uttVars /\ UNCHANGED libVars

Tick == TickBy(Deltas)

\* Mutant: a call waits until no other call is in flight (a global lock).
CanStartExclusive(p) ==
  \A q \in Procs : pc[q] \in {"idle", "done"}

\* cachedFetch takes no lock: a caller that is not itself inside a call may call.
CanStart(p) == pc[p] \in {"idle", "done"}

\* L44-70: the synchronous head of cachedFetch, up to its first await.
Call(p, request, options) ==
  /\ CanStart(p)
  /\ calls < MaxCalls
  /\ calls' = calls + 1
  /\ args' = [args EXCEPT ![p] = request]
  /\ cacheOptions' = [cacheOptions EXCEPT ![p] = options]
  /\ headers' = [headers EXCEPT ![p] = MergeHeaders(request.headers, request.additionalHeaders)]
  /\ cachedResponse' = [cachedResponse EXCEPT ![p] = Absent]
  /\ readAt' = [readAt EXCEPT ![p] = 0]
  /\ response' = [response EXCEPT ![p] = NoResponse]
  /\ entry' = [entry EXCEPT ![p] = Absent]
  /\ caught' = [caught EXCEPT ![p] = NoError]
  /\ result' = [result EXCEPT ![p] = Pending]
  /\ overlapped' = [overlapped EXCEPT ![p] = {pc[q] : q \in Procs \ {p}}]
  /\ dbOpens' = [dbOpens EXCEPT ![p] = 0]
  /\ storeGets' = [storeGets EXCEPT ![p] = 0]
  /\ storePuts' = [storePuts EXCEPT ![p] = 0]
  /\ IF CacheDisabled(EffectiveMaxAge(options.maxAge), options.skipCache)
     THEN \* L57-61: return fetch(url, ...)
          /\ pc' = [pc EXCEPT ![p] = "L58"]
          /\ netCount' = [netCount EXCEPT ![p] = 1]
          /\ cacheKey' = [cacheKey EXCEPT ![p] = <<>>]
     ELSE \* L65-74: key, then await getFromCache(cacheKey)
          /\ pc' = [pc EXCEPT ![p] = "L74"]
          /\ netCount' = [netCount EXCEPT ![p] = 0]
          /\ cacheKey' = [cacheKey EXCEPT ![p] =
               CacheKey(request.url, request.method, headers'[p], request.body)]
  /\ UNCHANGED <<now, ticks, store>>

\* cachedFetch called directly: no utterance is involved.
CachedFetch(p, request, options) ==
  Call(p, request, options) /\ UNCHANGED uttVars /\ UNCHANGED libVars

\* L58: the promise of the direct fetch settles, and cachedFetch's with it.
DirectFetchSettles(p) ==
  /\ pc[p] = "L58"
  /\ \/ \E a \in ServerAnswers :
          result' = [result EXCEPT ![p] = Resolved(NetworkResponse(a, "L58"))]
     \/ result' = [result EXCEPT ![p] = Rejected(NetworkError("L58"))]
  /\ pc' = [pc EXCEPT ![p] = "done"]
  /\ UNCHANGED world /\ UNCHANGED locals /\ UNCHANGED counters /\ UNCHANGED uttVars /\ UNCHANGED libVars

\* Mutant: the fallback request is tried twice.
CatchRetries(p, error) ==
  /\ caught' = [caught EXCEPT ![p] = error]
  /\ pc' = [pc EXCEPT ![p] = "L107"]
  /\ netCount' = [netCount EXCEPT ![p] = @ + 2]
  /\ UNCHANGED result

\* Mutant: the catch block rethrows instead of falling back.
CatchRethrows(p, error) ==
  /\ caught' = [caught EXCEPT ![p] = error]
  /\ pc' = [pc EXCEPT ![p] = "done"]
  /\ result' = [result EXCEPT ![p] = Rejected(error)]
  /\ UNCHANGED netCount

\* L104-110: the catch block: warn, then return fetch(url, ...).
Catch(p, error) ==
  /\ caught' = [caught EXCEPT ![p] = error]
  /\ pc' = [pc EXCEPT ![p] = "L107"]
  /\ netCount' = [netCount EXCEPT ![p] = @ + 1]
  /\ UNCHANGED result

\* L135-145 getFromCache, then L75-90: the lookup settles.  getDB may reject,
\* the get request may fail, or the get yields the entry (undefined if none).
GetFromCacheSettles(p) ==
  /\ pc[p] = "L74"
  /\ dbOpens' = [dbOpens EXCEPT ![p] = @ + 1]
  /\ \/ /\ Catch(p, StoreError("getDB"))
        /\ UNCHANGED <<storeGets, cachedResponse, readAt, store>>
     \/ /\ Catch(p, StoreError("get"))
        /\ storeGets' = [storeGets EXCEPT ![p] = @ + 1]
        /\ UNCHANGED <<cachedResponse, readAt, store>>
     \/ /\ storeGets' = [storeGets EXCEPT ![p] = @ + 1]
        /\ store' = StoreAfterRead(store, cacheKey[p], now)
        /\ LET got == StoreGet(store, cacheKey[p])
               found == got.value
           IN IF ~got.ok
              THEN /\ Catch(p, [name |-> "NotFoundError", site |-> "get"])
                   /\ UNCHANGED <<cachedResponse, readAt>>
              ELSE
              /\ cachedResponse' = [cachedResponse EXCEPT ![p] = found]
              /\ readAt' = [readAt EXCEPT ![p] = now]
              /\ UNCHANGED caught
              /\ IF found /= Absent /\ IsFresh(found.timestamp, now, maxAge(p).value)
                 THEN \* L80: return new Response(entry.blob, {headers: entry.headers})
                      /\ result' = [result EXCEPT ![p] =
                                      Resolved(NewResponse(found.blob, found.headers))]
                      /\ pc' = [pc EXCEPT ![p] = "done"]
                      /\ UNCHANGED netCount
                 ELSE \* L87: await fetch(url, ...)
                      /\ pc' = [pc EXCEPT ![p] = "L87"]
                      /\ netCount' = [netCount EXCEPT ![p] = @ + 1]
                      /\ UNCHANGED result
  /\ UNCHANGED <<now, ticks, calls, args, cacheOptions, headers, cacheKey, response, entry,
                 storePuts, overlapped>>
  /\ UNCHANGED uttVars /\ UNCHANGED libVars

\* L87: the fetch of the miss path settles.
FetchSettles(p) ==
  /\ pc[p] = "L87"
  /\ \/ \E a \in ServerAnswers :
          /\ response' = [response EXCEPT ![p] = NetworkResponse(a, "L87")]
          /\ pc' = [pc EXCEPT ![p] = "L94"]
          /\ UNCHANGED <<caught, netCount, result>>
     \/ /\ Catch(p, NetworkError("L87"))
        /\ UNCHANGED response
  /\ UNCHANGED <<world, args, cacheOptions, headers, cacheKey, cachedResponse, readAt,
                 entry, dbOpens, storeGets, storePuts, overlapped>>
  /\ UNCHANGED uttVars /\ UNCHANGED libVars

\* L93-101: the clone's body is read into a blob (or the read fails), and the
\* CacheEntry is built with the current time.
BlobSettles(p) ==
  /\ pc[p] = "L94"
  /\ \/ /\ entry' = [entry EXCEPT ![p] =
                       NewEntry(response[p], ResponseBlob(response[p]), now)]
        /\ pc' = [pc EXCEPT ![p] = "L97"]
        /\ UNCHANGED <<caught, netCount, result>>
     \/ /\ Catch(p, NetworkError("L94"))
        /\ UNCHANGED entry
  /\ UNCHANGED <<world, args, cacheOptions, headers, cacheKey, cachedResponse, readAt,
                 response, dbOpens, storeGets, storePuts, overlapped>>
  /\ UNCHANGED uttVars /\ UNCHANGED libVars

\* Mutant: the caller is handed a response rebuilt from the captured copy.
ReturnsCachedCopy(resp, written) == NewResponse(written.blob, written.headers)

\* L103: return response
ReturnedAfterCaching(resp, written) == resp

\* L147-157 cacheResponse, then L103: the write settles.  writerMaxAge is what
\* the history field writtenWith of the entry receives.
WriteSettles(p, writerMaxAge) ==
  /\ pc[p] = "L97"
  /\ dbOpens' = [dbOpens EXCEPT ![p] = @ + 1]
  /\ \/ /\ Catch(p, StoreError("getDB"))
        /\ UNCHANGED <<storePuts, store, entry>>
     \/ /\ Catch(p, StoreError("put"))
        /\ storePuts' = [storePuts EXCEPT ![p] = @ + 1]
        /\ UNCHANGED <<store, entry>>
     \/ /\ storePuts' = [storePuts EXCEPT ![p] = @ + 1]
        /\ entry' = [entry EXCEPT ![p] = Stamped(entry[p], store, cacheKey[p], now,
                                                           writerMaxAge)]
        /\ store' = StorePut(store, cacheKey[p], entry'[p])
        /\ result' = [result EXCEPT ![p] =
                        Resolved(ReturnedAfterCaching(response[p], entry[p]))]
        /\ pc' = [pc EXCEPT ![p] = "done"]
        /\ UNCHANGED <<caught, netCount>>
  /\ UNCHANGED <<now, ticks, calls, args, cacheOptions, headers, cacheKey, cachedResponse,
                 readAt, response, storeGets, overlapped>>
  /\ UNCHANGED uttVars /\ UNCHANGED libVars

\* The write, with no record of the writing call's maxAge.
CacheResponseSettles(p) == WriteSettles(p, -1)

\* The write, with the writing call's maxAge recorded in the entry's history.
CacheResponseSettlesRecorded(p) == WriteSettles(p, maxAge(p).value)

\* L107: the fetch of the catch block settles, and cachedFetch's promise with it.
FallbackFetchSettles(p) ==
  /\ pc[p] = "L107"
  /\ \/ \E a \in ServerAnswers :
          result' = [result EXCEPT ![p] = Resolved(NetworkResponse(a, "L107"))]
     \/ result' = [result EXCEPT ![p] = Rejected(NetworkError("L107"))]
  /\ pc' = [pc EXCEPT ![p] = "done"]
  /\ UNCHANGED world /\ UNCHANGED locals /\ UNCHANGED counters /\ UNCHANGED uttVars /\ UNCHANGED libVars

\* One caller issuing its calls one after the other.
Callers == {1}

Next ==
  \/ Tick
  \/ \E p \in Callers, r \in Requests, o \in CacheOptions : CachedFetch(p, r, o)
  \/ \E p \in Callers : DirectFetchSettles(p)
  \/ \E p \in Callers : GetFromCacheSettles(p)
  \/ \E p \in Callers : FetchSettles(p)
  \/ \E p \in Callers : BlobSettles(p)
  \/ \E p \in Callers : CacheResponseSettles(p)
  \/ \E p \in Callers : FallbackFetchSettles(p)

Spec == Init /\ [][Next]_vars

\* ------------------------------- callers that differ in their maxAge only
\* One request, read and written by calls with a maxAge of 2 s and of 1 h.
ReaderRequests == { r \in Requests : r.method = "" }
ReaderOptions == { [maxAge |-> m, skipCache |-> FALSE] : m \in {Num(2), Num(3600)} }

ReaderNext ==
  \/ Tick
  \/ \E p \in Callers, r \in ReaderRequests, o \in ReaderOptions : CachedFetch(p, r, o)
  \/ \E p \in Callers : GetFromCacheSettles(p)
  \/ \E p \in Callers : FetchSettles(p)
  \/ \E p \in Callers : BlobSettles(p)
  \/ \E p \in Callers : CacheResponseSettlesRecorded(p)
  \/ \E p \in Callers : FallbackFetchSettles(p)

ReaderSpec == Init /\ [][ReaderNext]_vars

\* ------------------------------------------- calls that omit cacheOptions
\* What L48-49 destructure from an omitted cacheOptions, or one without maxAge.
DefaultOptions == { [maxAge |-> Undefined, skipCache |-> FALSE] }

\* Clock advances that put an entry just below, at and above one hour.
DefaultDeltas == {1000, 3599000}

DefaultNext ==
  \/ TickBy(DefaultDeltas)
  \/ \E p \in Callers, r \in Requests, o \in DefaultOptions : CachedFetch(p, r, o)
  \/ \E p \in Callers : GetFromCacheSettles(p)
  \/ \E p \in Callers : FetchSettles(p)
  \/ \E p \in Callers : BlobSettles(p)
  \/ \E p \in Callers : CacheResponseSettles(p)
  \/ \E p \in Callers : FallbackFetchSettles(p)

DefaultSpec == Init /\ [][DefaultNext]_vars

\* ------------------------------------------------------ concurrent callers
\* Two callers whose calls overlap; the clock stands still.
ConcOptions == { [maxAge |-> Num(3600), skipCache |-> FALSE] }

ConcNext ==
  \/ \E p \in Procs, r \in Requests, o \in ConcOptions : CachedFetch(p, r, o)
  \/ \E p \in Procs : GetFromCacheSettles(p)
  \/ \E p \in Procs : FetchSettles(p)
  \/ \E p \in Procs : BlobSettles(p)
  \/ \E p \in Procs : CacheResponseSettles(p)
  \/ \E p \in Procs : FallbackFetchSettles(p)

ConcSpec == Init /\ [][ConcNext]_vars

\* ----------------------------------------------- the key as a pure function
\* The request shapes the key is computed for: reordered headers, headers
\* split between headers and additionalHeaders, a value overridden by
\* additionalHeaders, absent and explicit methods, string and Blob bodies.
KeyHeaderArgs ==
  { <<<<ApiKey, ContentType>>, <<>>>>,
    <<<<ContentType, ApiKey>>, <<>>>>,
    <<<<ApiKey>>, <<ContentType>>>>,
    <<<<ContentType>>, <<ApiKey>>>>,
    <<<<ApiKey, Hdr("Content-Type", "text/plain")>>, <<ContentType>>>>,
    <<<<ApiKey>>, <<>>>> }

KeyRequests ==
  { [url |-> u, method |-> m, headers |-> h[1], additionalHeaders |-> h[2], body |-> b] :
      u \in {"/text-to-speech/v1", "/text-to-speech/v2"},
      m \in {"", "GET", "POST"},
      h \in KeyHeaderArgs,
      b \in {NoBody, StringBody("hello"), BlobBody("a"), BlobBody("b")} }

\* Two callers each compute the key of one request (the head of cachedFetch).
KeyNext ==
  \E p \in Procs, r \in KeyRequests :
     CachedFetch(p, r, [maxAge |-> Undefined, skipCache |-> FALSE])

KeySpec == Init /\ [][KeyNext]_vars

\* ------------------------------------------- the ElevenLabs utterance
\* ElevenLabsVoiceProvider constructor: options.cacheMaxAge ?? 3600
ProviderCacheMaxAge(option) ==
  IF option \in {Undefined, Null} THEN Num(DefaultMaxAge) ELSE option

\* ElevenLabsUtterance constructor: cacheMaxAge: number | null = 3600
UtteranceCacheMaxAge(argument) ==
  IF argument = Undefined THEN Num(DefaultMaxAge) ELSE argument

\* options.normalizeVolume ?? false, in the provider and in the utterance
NormalizeVolumeOption(flag) == flag

\* The options.cacheMaxAge values providers are created with.
ProviderOptions == {Undefined, Null, Num(0)}

\* The request start() builds for the utterance's text.
SynthesisRequest ==
  [url |-> "/text-to-speech/v1", method |-> "POST", headers |-> <<ApiKey, ContentType>>,
   additionalHeaders |-> <<>>, body |-> StringBody("hello")]

\* The callbacks the application assigns to onstart / onend.
Callbacks == {1}

\* The errors a start() invocation rejects with.
UtteranceError(name, site) == [name |-> name, site |-> site]

\* Mutant: the chain leaves the limiter out.
PlaybackChainNoLimiter == <<"source", "compressor", "gain", "destination">>

\* L654-657: source -> compressor -> limiter -> gain -> destination
PlaybackChain == <<"source", "compressor", "limiter", "gain", "destination">>

\* Mutant: the event invokes the callback that was assigned first.
InvokeFirst(kind, slot) ==
  /\ afterStop' = IF slot /= 0 /\ stopAt = calls THEN afterStop \cup {kind} ELSE afterStop
  /\ invoked' = IF slot /= 0 THEN [kind |-> kind, cb |-> 1] ELSE invoked

\* this.onStartCallback?.() / this.onEndCallback?.(): the callback the slot
\* holds now is invoked, if it holds one.  The history keeps the last
\* invocation, and those made after a stop() that no start() followed.
Invoke(kind, slot) ==
  /\ afterStop' = IF slot /= 0 /\ stopAt = calls THEN afterStop \cup {kind} ELSE afterStop
  /\ invoked' = IF slot /= 0 THEN [kind |-> kind, cb |-> slot] ELSE invoked

\* The history of the playback of invocation id after the callback in slot,
\* if there is one, was invoked for an event of the given kind.
Logged(id, kind, slot) ==
  IF slot = 0 THEN events
  ELSE (id :> Append(IF id \in DOMAIN events THEN events[id] ELSE <<>>, kind)) @@ events

\* new ElevenLabsVoiceProvider(key, url, options), then a voice of it, then
\* voice.createUtterance(text).
CreateUtterance(option, normalize) ==
  /\ ~utt.created
  /\ utt' = [NoUtterance EXCEPT
               !.created = TRUE,
               !.option = option,
               !.cacheMaxAge = UtteranceCacheMaxAge(ProviderCacheMaxAge(option)),
               !.normalizeVolume = NormalizeVolumeOption(normalize)]
  /\ UNCHANGED <<upc, inv, audios, contexts, sources, stopAt, afterStop>>
  /\ UNCHANGED <<thrown, invoked, assigned, events>>
  /\ UNCHANGED world /\ UNCHANGED locals /\ UNCHANGED counters
  /\ UNCHANGED <<pc, result>> /\ UNCHANGED libVars

\* set onstart(callback)
SetOnStart(cb) ==
  /\ utt.created /\ utt.onStartCallback /= cb
  /\ utt' = [utt EXCEPT !.onStartCallback = cb]
  /\ assigned' = [assigned EXCEPT !.start = cb]
  /\ UNCHANGED <<upc, inv, audios, contexts, sources, stopAt, afterStop>>
  /\ UNCHANGED <<thrown, invoked, events>>
  /\ UNCHANGED world /\ UNCHANGED locals /\ UNCHANGED counters
  /\ UNCHANGED <<pc, result>> /\ UNCHANGED libVars

\* set onend(callback)
SetOnEnd(cb) ==
  /\ utt.created /\ utt.onEndCallback /= cb
  /\ utt' = [utt EXCEPT !.onEndCallback = cb]
  /\ assigned' = [assigned EXCEPT !.end = cb]
  /\ UNCHANGED <<upc, inv, audios, contexts, sources, stopAt, afterStop>>
  /\ UNCHANGED <<thrown, invoked, events>>
  /\ UNCHANGED world /\ UNCHANGED locals /\ UNCHANGED counters
  /\ UNCHANGED <<pc, result>> /\ UNCHANGED libVars

\* start(), up to its first await: cachedFetch is called with
\* cacheOptions { maxAge: this.cacheMaxAge }.
Start(p) ==
  /\ utt.created
  /\ upc[p] \in {"none", "returned", "rejected"}
  /\ Call(p, SynthesisRequest, [maxAge |-> utt.cacheMaxAge, skipCache |-> FALSE])
  /\ upc' = [upc EXCEPT ![p] = "L521"]
  /\ inv' = [inv EXCEPT ![p] = calls']
  /\ thrown' = [thrown EXCEPT ![p] = NoError]
  /\ UNCHANGED <<utt, audios, contexts, sources, stopAt, afterStop>>
  /\ UNCHANGED <<invoked, assigned, events>> /\ UNCHANGED libVars

\* The promise of cachedFetch settles: start() rejects with it, or goes on to
\* await response.blob().
CachedFetchReturns(p) ==
  /\ upc[p] = "L521" /\ pc[p] = "done"
  /\ IF result[p].kind = "rejected"
     THEN /\ upc' = [upc EXCEPT ![p] = "rejected"]
          /\ thrown' = [thrown EXCEPT ![p] = result[p].error]
     ELSE /\ upc' = [upc EXCEPT ![p] = "L540"]
          /\ UNCHANGED thrown
  /\ UNCHANGED <<utt, inv, audios, contexts, sources, stopAt, afterStop>>
  /\ UNCHANGED <<invoked, assigned, events>>
  /\ UNCHANGED world /\ UNCHANGED locals /\ UNCHANGED counters
  /\ UNCHANGED <<pc, result>> /\ UNCHANGED libVars

\* response.blob() settles.  Plain path: a new Audio is stored in this.audio
\* and asked to play.  Normalized path: a new AudioContext is stored in
\* this.audioContext and the blob's bytes are awaited.
BodySettles(p) ==
  /\ upc[p] = "L540"
  /\ \/ /\ upc' = [upc EXCEPT ![p] = "rejected"]
        /\ thrown' = [thrown EXCEPT ![p] = UtteranceError("TypeError", "L540")]
        /\ UNCHANGED <<utt, audios, contexts>>
     \/ /\ utt.normalizeVolume
        /\ contexts' = (inv[p] :> "running") @@ contexts
        /\ utt' = [utt EXCEPT !.audioContext = inv[p]]
        /\ upc' = [upc EXCEPT ![p] = "L618"]
        /\ UNCHANGED <<audios, thrown>>
     \/ /\ ~utt.normalizeVolume
        /\ audios' = (inv[p] :> "loading") @@ audios
        /\ utt' = [utt EXCEPT !.audio = inv[p]]
        /\ upc' = [upc EXCEPT ![p] = "L549"]
        /\ UNCHANGED <<contexts, thrown>>
  /\ UNCHANGED <<inv, sources, stopAt, afterStop>>
  /\ UNCHANGED <<invoked, assigned, events>>
  /\ UNCHANGED world /\ UNCHANGED locals /\ UNCHANGED counters
  /\ UNCHANGED <<pc, result>> /\ UNCHANGED libVars

\* The element starts playing: its play event invokes the start callback and
\* the promise of play() resolves.
PlayBegins(p) ==
  /\ upc[p] = "L549" /\ audios[inv[p]] = "loading"
  /\ audios' = [audios EXCEPT ![inv[p]] = "playing"]
  /\ Invoke("start", utt.onStartCallback)
  /\ events' = Logged(inv[p], "start", utt.onStartCallback)
  /\ upc' = [upc EXCEPT ![p] = "returned"]
  /\ UNCHANGED <<utt, inv, contexts, sources, stopAt>>
  /\ UNCHANGED <<thrown, assigned>>
  /\ UNCHANGED world /\ UNCHANGED locals /\ UNCHANGED counters
  /\ UNCHANGED <<pc, result>> /\ UNCHANGED libVars

\* The element cannot play the payload: play() rejects, and start() with it.
PlayRejects(p) ==
  /\ upc[p] = "L549" /\ audios[inv[p]] = "loading"
  /\ audios' = [audios EXCEPT ![inv[p]] = "error"]
  /\ upc' = [upc EXCEPT ![p] = "rejected"]
  /\ thrown' = [thrown EXCEPT ![p] = UtteranceError("NotSupportedError", "L549")]
  /\ UNCHANGED <<utt, inv, contexts, sources, stopAt, afterStop>>
  /\ UNCHANGED <<invoked, assigned, events>>
  /\ UNCHANGED world /\ UNCHANGED locals /\ UNCHANGED counters
  /\ UNCHANGED <<pc, result>> /\ UNCHANGED libVars

\* Mutant: the element loops: after its ended event it plays on.
AudioEndsLoops(id) ==
  /\ id \in DOMAIN audios /\ audios[id] = "playing"
  /\ Len(IF id \in DOMAIN events THEN events[id] ELSE <<>>) < 3
  /\ Invoke("end", utt.onEndCallback)
  /\ events' = Logged(id, "end", utt.onEndCallback)
  /\ UNCHANGED <<utt, upc, inv, audios, contexts, sources, stopAt>>
  /\ UNCHANGED <<thrown, assigned>>
  /\ UNCHANGED world /\ UNCHANGED locals /\ UNCHANGED counters
  /\ UNCHANGED <<pc, result>> /\ UNCHANGED libVars

\* A playing element reaches the end of its media: its ended event invokes
\* the end callback.
AudioEnds(id) ==
  /\ id \in DOMAIN audios /\ audios[id] = "playing"
  /\ audios' = [audios EXCEPT ![id] = "ended"]
  /\ Invoke("end", utt.onEndCallback)
  /\ events' = Logged(id, "end", utt.onEndCallback)
  /\ UNCHANGED <<utt, upc, inv, contexts, sources, stopAt>>
  /\ UNCHANGED <<thrown, assigned>>
  /\ UNCHANGED world /\ UNCHANGED locals /\ UNCHANGED counters
  /\ UNCHANGED <<pc, result>> /\ UNCHANGED libVars

\* audioBlob.arrayBuffer() settles; this.audioContext.decodeAudioData is then
\* called on whatever this.audioContext holds now (a TypeError if null).
ArrayBufferSettles(p) ==
  /\ upc[p] = "L618"
  /\ \/ /\ upc' = [upc EXCEPT ![p] = "rejected"]
        /\ thrown' = [thrown EXCEPT ![p] = UtteranceError("Error", "L618")]
     \/ IF utt.audioContext = 0
        THEN /\ upc' = [upc EXCEPT ![p] = "rejected"]
             /\ thrown' = [thrown EXCEPT ![p] = UtteranceError("TypeError", "L621")]
        ELSE /\ upc' = [upc EXCEPT ![p] = "L621"]
             /\ UNCHANGED thrown
  /\ UNCHANGED <<utt, inv, audios, contexts, sources, stopAt, afterStop>>
  /\ UNCHANGED <<invoked, assigned, events>>
  /\ UNCHANGED world /\ UNCHANGED locals /\ UNCHANGED counters
  /\ UNCHANGED <<pc, result>> /\ UNCHANGED libVars

\* Mutant: a payload that cannot be decoded is played through a plain Audio.
DecodeRejectsFallsBack(p) ==
  /\ audios' = (inv[p] :> "loading") @@ audios
  /\ utt' = [utt EXCEPT !.audio = inv[p]]
  /\ upc' = [upc EXCEPT ![p] = "L549"]
  /\ UNCHANGED <<thrown, sources, afterStop, invoked, events>>

\* decodeAudioData rejects: playNormalizedAudio rejects with its error, and
\* start() with it; nothing catches it.
DecodeRejects(p) ==
  /\ upc' = [upc EXCEPT ![p] = "rejected"]
  /\ thrown' = [thrown EXCEPT ![p] = UtteranceError("EncodingError", "L621")]
  /\ UNCHANGED <<utt, audios, sources, afterStop, invoked, events>>

\* decodeAudioData settles.  On success the source, the normalized buffer and
\* the chain are built on this.audioContext (a TypeError if it is null by
\* now), the source is started and the start callback invoked.  source.buffer
\* is assigned twice (L625, L631): a platform that lets a source's buffer be
\* set only once throws InvalidStateError at the second assignment.
DecodeSettles(p) ==
  /\ upc[p] = "L621"
  /\ \/ DecodeRejects(p)
     \/ /\ utt.audioContext /= 0
        /\ upc' = [upc EXCEPT ![p] = "rejected"]
        /\ thrown' = [thrown EXCEPT ![p] = UtteranceError("InvalidStateError", "L631")]
        /\ UNCHANGED <<utt, audios, sources, afterStop, invoked, events>>
     \/ IF utt.audioContext = 0
        THEN /\ upc' = [upc EXCEPT ![p] = "rejected"]
             /\ thrown' = [thrown EXCEPT ![p] = UtteranceError("TypeError", "L624")]
             /\ UNCHANGED <<utt, audios, sources, afterStop, invoked, events>>
        ELSE /\ sources' = (inv[p] :> [ctx |-> utt.audioContext, state |-> "playing",
                                       buffer |-> "normalized", chain |-> PlaybackChain])
                             @@ sources
             /\ Invoke("start", utt.onStartCallback)
             /\ events' = Logged(inv[p], "start", utt.onStartCallback)
             /\ upc' = [upc EXCEPT ![p] = "returned"]
             /\ UNCHANGED <<utt, audios, thrown>>
  /\ UNCHANGED <<inv, contexts, stopAt, assigned>>
  /\ UNCHANGED world /\ UNCHANGED locals /\ UNCHANGED counters
  /\ UNCHANGED <<pc, result>> /\ UNCHANGED libVars

\* A source on a running context reaches the end of its buffer: source.onended
\* invokes the end callback, closes this.audioContext and clears the field.
SourceEnds(id) ==
  /\ id \in DOMAIN sources /\ sources[id].state = "playing"
  /\ contexts[sources[id].ctx] = "running"
  /\ sources' = [sources EXCEPT ![id].state = "ended"]
  /\ Invoke("end", utt.onEndCallback)
  /\ events' = Logged(id, "end", utt.onEndCallback)
  /\ contexts' = IF utt.audioContext /= 0
                 THEN [contexts EXCEPT ![utt.audioContext] = "closed"]
                 ELSE contexts
  /\ utt' = [utt EXCEPT !.audioContext = 0]
  /\ UNCHANGED <<upc, inv, audios, stopAt>>
  /\ UNCHANGED <<thrown, assigned>>
  /\ UNCHANGED world /\ UNCHANGED locals /\ UNCHANGED counters
  /\ UNCHANGED <<pc, result>> /\ UNCHANGED libVars

\* stop(): pause and forget this.audio, close and forget this.audioContext.
\* Pausing an element that has not begun to play rejects its play() promise.
Stop ==
  /\ utt.created
  /\ audios' = IF utt.audio /= 0 /\ audios[utt.audio] \in {"loading", "playing"}
               THEN [audios EXCEPT ![utt.audio] = "paused"]
               ELSE audios
  /\ LET aborted == { p \in Procs : /\ upc[p] = "L549" /\ utt.audio = inv[p]
                                    /\ audios[utt.audio] = "loading" }
     IN /\ upc' = [p \in Procs |-> IF p \in aborted THEN "rejected" ELSE upc[p]]
        /\ thrown' = [p \in Procs |->
                        IF p \in aborted THEN UtteranceError("AbortError", "L549")
                        ELSE thrown[p]]
  /\ contexts' = IF utt.audioContext /= 0
                 THEN [contexts EXCEPT ![utt.audioContext] = "closed"]
                 ELSE contexts
  /\ utt' = [utt EXCEPT !.audio = 0, !.audioContext = 0]
  /\ stopAt' = calls
  /\ UNCHANGED <<inv, sources, afterStop>>
  /\ UNCHANGED <<invoked, assigned, events>>
  /\ UNCHANGED world /\ UNCHANGED locals /\ UNCHANGED counters
  /\ UNCHANGED <<pc, result>> /\ UNCHANGED libVars

\* The numbers start() invocations can have.
Invocations == 1..MaxCalls

\* One start() is in flight at a time; a later start() may follow while the
\* playback of an earlier one goes on.
Starters == {1}

UttNext ==
  \/ \E o \in ProviderOptions, n \in BOOLEAN : CreateUtterance(o, n)
  \/ \E cb \in Callbacks : SetOnStart(cb)
  \/ \E cb \in Callbacks : SetOnEnd(cb)
  \/ \E p \in Starters : Start(p)
  \/ Stop
  \/ \E p \in Starters : DirectFetchSettles(p)
  \/ \E p \in Starters : GetFromCacheSettles(p)
  \/ \E p \in Starters : FetchSettles(p)
  \/ \E p \in Starters : BlobSettles(p)
  \/ \E p \in Starters : CacheResponseSettles(p)
  \/ \E p \in Starters : FallbackFetchSettles(p)
  \/ \E p \in Starters : CachedFetchReturns(p)
  \/ \E p \in Starters : BodySettles(p)
  \/ \E p \in Starters : PlayBegins(p)
  \/ \E p \in Starters : PlayRejects(p)
  \/ \E id \in Invocations : AudioEnds(id)
  \/ \E p \in Starters : ArrayBufferSettles(p)
  \/ \E p \in Starters : DecodeSettles(p)
  \/ \E id \in Invocations : SourceEnds(id)

UttSpec == Init /\ [][UttNext]_vars

\* ------------------------------- playback of an utterance, caching off
\* A provider created with cacheMaxAge 0: every start() fetches directly.
PlayOptions == {Num(0)}

\* Two callbacks, so that one can replace the other.
PlayCallbacks == {1, 2}

PlayNext ==
  \/ \E o \in PlayOptions, n \in BOOLEAN : CreateUtterance(o, n)
  \/ \E cb \in PlayCallbacks : SetOnStart(cb)
  \/ \E cb \in PlayCallbacks : SetOnEnd(cb)
  \/ \E p \in Starters : Start(p)
  \/ Stop
  \/ \E p \in Starters : DirectFetchSettles(p)
  \/ \E p \in Starters : CachedFetchReturns(p)
  \/ \E p \in Starters : BodySettles(p)
  \/ \E p \in Starters : PlayBegins(p)
  \/ \E p \in Starters : PlayRejects(p)
  \/ \E id \in Invocations : AudioEnds(id)
  \/ \E p \in Starters : ArrayBufferSettles(p)
  \/ \E p \in Starters : DecodeSettles(p)
  \/ \E id \in Invocations : SourceEnds(id)

PlaySpec == Init /\ [][PlayNext]_vars

\* ------------------------------------------------- normalizeAudioBuffer
\* Samples are fixed-point numbers, 1000 for 1.0.  A channel is a sequence
\* of runs [v |-> sample, n |-> count] of equal consecutive samples: the
\* loops of the code visit every sample, and equal samples of one channel
\* get equal results.
MaxChannels == 2

\* const TARGET_RMS = 0.2
TARGET_RMS == 200

\* The soft limiter's threshold, 0.8.
LimiterThreshold == 800

\* 1.0 in sample units.
One == 1000

\* The RMS is kept to four decimals.
RmsDigits == 10

Abs(x) == IF x < 0 THEN -x ELSE x

RECURSIVE SumOver(_, _)
\* The sum of weight(run) over the runs of a channel.
SumOver(channel, i) ==
  IF i > Len(channel) THEN 0
  ELSE channel[i].n * channel[i].v * channel[i].v + SumOver(channel, i + 1)

\* L580-583: sumOfSquares
SumOfSquares(channel) == SumOver(channel, 1)

RECURSIVE LengthFrom(_, _)
LengthFrom(channel, i) ==
  IF i > Len(channel) THEN 0 ELSE channel[i].n + LengthFrom(channel, i + 1)

\* inputData.length
ChannelLength(channel) == LengthFrom(channel, 1)

RECURSIVE SqrtIter(_, _)
SqrtIter(n, x) ==
  LET y == (x + n \div x) \div 2 IN IF y >= x THEN x ELSE SqrtIter(n, y)

\* Math.sqrt, rounded down to an integer.
Sqrt(n) == IF n = 0 THEN 0 ELSE SqrtIter(n, n)

\* L584: rms = Math.sqrt(sumOfSquares / inputData.length), in units of 1/10000.
Rms(channel) ==
  LET s == SumOfSquares(channel)
      len == ChannelLength(channel)
      scale == RmsDigits * RmsDigits
  IN  Sqrt((s \div len) * scale + ((s % len) * scale) \div len)

\* Mutant: a silent channel gets gain 0.
GainZeroForSilence(rms) ==
  IF rms > 0 THEN [num |-> TARGET_RMS * RmsDigits, den |-> rms]
  ELSE [num |-> 0, den |-> 1]

\* L587: gain = rms > 0 ? TARGET_RMS / rms : 1, as a fraction.
Gain(rms) ==
  IF rms > 0 THEN [num |-> TARGET_RMS * RmsDigits, den |-> rms]
  ELSE [num |-> 1, den |-> 1]

\* L592: sample = inputData[i] * gain
Gained(v, gain) ==
  IF v < 0 THEN -((-v * gain.num) \div gain.den) ELSE (v * gain.num) \div gain.den

\* Math.tanh at these arguments (both in thousandths).
TanhTable ==
  << <<0, 0>>, <<250, 245>>, <<500, 462>>, <<750, 635>>, <<1000, 762>>,
     <<1500, 905>>, <<2000, 964>>, <<2500, 987>>, <<3000, 995>>, <<4000, 999>>,
     <<8000, 1000>> >>

\* Math.tanh for x >= 0, interpolated between the table's arguments; from
\* the last argument on the limiter's result rounds to 1.0 in a Float32Array.
Tanh(x) ==
  IF x >= TanhTable[Len(TanhTable)][1] THEN One
  ELSE LET i == CHOOSE k \in 1..(Len(TanhTable) - 1) :
                  TanhTable[k][1] <= x /\ x < TanhTable[k + 1][1]
           x0 == TanhTable[i][1]
           x1 == TanhTable[i + 1][1]
           y0 == TanhTable[i][2]
           y1 == TanhTable[i + 1][2]
       IN  y0 + ((x - x0) * (y1 - y0)) \div (x1 - x0)

\* Mutant: no limiter.
SoftLimitOff(sample) == sample

\* L595-599: the soft limiter.
SoftLimit(sample) ==
  LET t == LimiterThreshold
      knee == One - LimiterThreshold
  IN  IF sample > t
      THEN t + (knee * Tanh(((sample - t) * One) \div knee)) \div One
      ELSE IF sample < -t
      THEN -t - (knee * Tanh(((-sample - t) * One) \div knee)) \div One
      ELSE sample

\* L574-602: one iteration of the channel loop.
NormalizeChannel(channel) ==
  LET gain == Gain(Rms(channel))
  IN  [i \in 1..Len(channel) |->
         [v |-> SoftLimit(Gained(channel[i].v, gain)), n |-> channel[i].n]]

\* L567-571: createBuffer(numberOfChannels, length, sampleRate), then the
\* channel loop fills it.
NormalizeAudioBuffer(buffer) ==
  [sampleRate |-> buffer.sampleRate,
   channels |-> [c \in 1..Len(buffer.channels) |-> NormalizeChannel(buffer.channels[c])]]

\* Mutant: the result is written into the input buffer.
InputAfterInPlace(buffer) == NormalizeAudioBuffer(buffer)

\* The input buffer after the call: inputData is only read (L576, L582, L592).
InputAfter(buffer) == buffer

\* Channels of 2000 samples: silence, impulses, constant levels, a square
\* wave, a quiet signal with a loud burst.
LongChannels ==
  { << [v |-> 0, n |-> 2000] >>,
    << [v |-> 1000, n |-> 1], [v |-> 0, n |-> 1999] >>,
    << [v |-> -1000, n |-> 1], [v |-> 0, n |-> 1999] >>,
    << [v |-> 0, n |-> 1000], [v |-> 10, n |-> 1], [v |-> 0, n |-> 999] >>,
    << [v |-> 500, n |-> 2000] >>,
    << [v |-> -1000, n |-> 2000] >>,
    << [v |-> 1000, n |-> 1000], [v |-> -1000, n |-> 1000] >>,
    << [v |-> 1000, n |-> 50], [v |-> 100, n |-> 1950] >>,
    << [v |-> -1000, n |-> 50], [v |-> 100, n |-> 1950] >>,
    << [v |-> 800, n |-> 125], [v |-> 0, n |-> 1875] >> }

\* The buffers decodeAudioData hands over: one to MaxChannels channels of
\* equal length, at one of two sample rates.
RECURSIVE ChannelLists(_)
ChannelLists(k) ==
  IF k = 0 THEN { <<>> }
  ELSE { Append(cs, c) : cs \in ChannelLists(k - 1), c \in LongChannels }

Buffers ==
  { [sampleRate |-> r, channels |-> cs] :
      r \in {44100, 48000},
      cs \in UNION { ChannelLists(k) : k \in 1..MaxChannels } }

\* normalizeAudioBuffer(buffer), called once on one of the buffers.
Normalize(buffer) ==
  /\ ~norm.called
  /\ norm' = [called |-> TRUE,
              input |-> buffer,
              inputAfter |-> InputAfter(buffer),
              gains |-> [c \in 1..Len(buffer.channels) |-> Gain(Rms(buffer.channels[c]))],
              output |-> NormalizeAudioBuffer(buffer)]
  /\ UNCHANGED <<browser, listing>> /\ UNCHANGED auxVars
  /\ UNCHANGED world /\ UNCHANGED locals /\ UNCHANGED counters
  /\ UNCHANGED <<pc, result>>
  /\ UNCHANGED uttVars

NormNext == \E buffer \in Buffers : Normalize(buffer)

NormSpec == Init /\ [][NormNext]_vars

\* -------------------------------------------------- BrowserVoiceProvider
\* Language tags are sequences of characters.
MaxVoices == 3
MaxMinVoices == 2

EnUS == <<"e", "n", "-", "U", "S">>
EnGB == <<"e", "n", "-", "G", "B">>
EnUnderscoreUS == <<"e", "n", "_", "U", "S">>
FrFR == <<"f", "r", "-", "F", "R">>
FrCA == <<"f", "r", "-", "C", "A">>
En == <<"e", "n">>
EnDash == <<"e", "n", "-">>
DeDE == <<"d", "e", "-", "D", "E">>

\* The lang values of platform voices, and the lang values asked for.
VoiceLangs == {EnUS, EnGB, EnUnderscoreUS, FrFR}
RequestLangs == {EnUS, En, EnDash, FrCA, DeDE}

\* lang.includes("-")
Includes(str, ch) == \E i \in 1..Len(str) : str[i] = ch

\* str.replace(/-.+/, ""): the first "-" that has a character after it, and
\* everything from it on, is removed.
RemoveRegion(str) ==
  LET hits == { i \in 1..(Len(str) - 1) : str[i] = "-" }
  IN  IF hits = {} THEN str
      ELSE SubSeq(str, 1, (CHOOSE i \in hits : \A j \in hits : i <= j) - 1)

\* str.slice(0, 2)
Slice2(str) == SubSeq(str, 1, IF Len(str) < 2 THEN Len(str) ELSE 2)

\* str.startsWith(prefix)
StartsWith(str, prefix) ==
  Len(prefix) <= Len(str) /\ SubSeq(str, 1, Len(prefix)) = prefix

\* Mutant: a candidate list must have more than minVoices voices.
MeetsMinimumStrictly(matches, minVoices) == Len(matches) > minVoices

\* matches.length >= minVoices
MeetsMinimum(matches, minVoices) == Len(matches) >= minVoices

\* L123-162 getBrowserVoicesForLanguage
GetBrowserVoicesForLanguage(synth, allVoices, lang, minVoices) ==
  LET IsExact(voice) == voice.lang = lang
      IsBase(voice) == RemoveRegion(voice.lang) = RemoveRegion(lang)
      IsPrefix(voice) == StartsWith(voice.lang, Slice2(lang))
      exactMatch == SelectSeq(allVoices, IsExact)
      baseMatches == SelectSeq(allVoices, IsBase)
      languageMatch == SelectSeq(allVoices, IsPrefix)
  IN  IF ~synth THEN <<>>
      ELSE IF MeetsMinimum(exactMatch, minVoices) THEN exactMatch
      ELSE IF Includes(lang, "-") /\ MeetsMinimum(baseMatches, minVoices) THEN baseMatches
      ELSE IF MeetsMinimum(languageMatch, minVoices) THEN languageMatch
      ELSE allVoices

\* new BrowserSpeechSynthesisVoice(voice, voice.lang, this)
BrowserSpeechSynthesisVoice(voice) ==
  [voice |-> voice, lang |-> voice.lang, isDefault |-> voice.default,
   provider |-> "Browser"]

\* L19-34 getVoices, once ensureVoicesLoaded has resolved.
BrowserGetVoices(synth, allVoices, lang, minVoices) ==
  LET filteredVoices == GetBrowserVoicesForLanguage(synth, allVoices, lang, minVoices)
  IN  [i \in 1..Len(filteredVoices) |-> BrowserSpeechSynthesisVoice(filteredVoices[i])]

\* Mutant: the default flag is not looked at.
FindDefaultIgnoresFlag(voices) ==
  IF voices = <<>> THEN 0 ELSE 1

\* voices.find((voice) => voice.isDefault): the index of the first default
\* voice, 0 for undefined.
FindDefault(voices) ==
  LET hits == { i \in 1..Len(voices) : voices[i].isDefault }
  IN  IF hits = {} THEN 0 ELSE CHOOSE i \in hits : \A j \in hits : i <= j

\* L103-114 getDefaultVoice
BrowserGetDefaultVoice(synth, allVoices, lang) ==
  LET voices == BrowserGetVoices(synth, allVoices, lang, 1)
      found == FindDefault(voices)
  IN  IF found /= 0 THEN voices[found]
      ELSE IF voices /= <<>> THEN voices[1]
      ELSE Null

\* The lists window.speechSynthesis.getVoices() can return: up to MaxVoices
\* voices, each with its position as voiceURI.
RECURSIVE VoiceLists(_)
VoiceLists(k) ==
  IF k = 0 THEN { <<>> }
  ELSE { Append(vs, [voiceURI |-> k, lang |-> l, default |-> d]) :
           vs \in VoiceLists(k - 1), l \in VoiceLangs, d \in BOOLEAN }

Platforms ==
  { [synth |-> FALSE, voices |-> <<>>] }
  \cup { [synth |-> TRUE, voices |-> vs] :
           vs \in UNION { VoiceLists(k) : k \in 0..MaxVoices } }

\* The page the provider runs in: whether window.speechSynthesis exists, and
\* the voices it has loaded.
PageLoads(platform) ==
  /\ ~browser.platform
  /\ browser' = [browser EXCEPT !.platform = TRUE, !.synth = platform.synth,
                                !.voices = platform.voices]
  /\ UNCHANGED <<norm, listing>> /\ UNCHANGED auxVars
  /\ UNCHANGED world /\ UNCHANGED locals /\ UNCHANGED counters
  /\ UNCHANGED <<pc, result>>
  /\ UNCHANGED uttVars

\* browserVoiceProvider.getVoices({lang, minVoices}) resolves.
GetVoicesResolves(lang, minVoices) ==
  /\ browser.platform /\ browser.called = ""
  /\ browser' = [platform |-> TRUE, synth |-> browser.synth, voices |-> browser.voices,
                 called |-> "getVoices", lang |-> lang, minVoices |-> minVoices,
                 returned |-> BrowserGetVoices(browser.synth, browser.voices, lang, minVoices)]
  /\ UNCHANGED <<norm, listing>> /\ UNCHANGED auxVars
  /\ UNCHANGED world /\ UNCHANGED locals /\ UNCHANGED counters
  /\ UNCHANGED <<pc, result>>
  /\ UNCHANGED uttVars

\* browserVoiceProvider.getDefaultVoice({lang}) resolves.
GetDefaultVoiceResolves(lang) ==
  /\ browser.platform /\ browser.called = ""
  /\ browser' = [platform |-> TRUE, synth |-> browser.synth, voices |-> browser.voices,
                 called |-> "getDefaultVoice", lang |-> lang, minVoices |-> 1,
                 returned |-> BrowserGetDefaultVoice(browser.synth, browser.voices, lang)]
  /\ UNCHANGED <<norm, listing>> /\ UNCHANGED auxVars
  /\ UNCHANGED world /\ UNCHANGED locals /\ UNCHANGED counters
  /\ UNCHANGED <<pc, result>>
  /\ UNCHANGED uttVars

BrowserNext ==
  \/ \E platform \in Platforms : PageLoads(platform)
  \/ \E lang \in RequestLangs, minVoices \in 0..MaxMinVoices :
        GetVoicesResolves(lang, minVoices)
  \/ \E lang \in RequestLangs : GetDefaultVoiceResolves(lang)

BrowserSpec == Init /\ [][BrowserNext]_vars

\* ------------------------------------ ElevenLabsVoiceProvider.getVoices
Es == <<"e", "s">>
EsMX == <<"e", "s", "-", "M", "X">>

\* The labels of a voice in the response: none, without language, or with one.
LabelKinds ==
  { [present |-> FALSE, hasLanguage |-> FALSE, language |-> <<>>],
    [present |-> TRUE, hasLanguage |-> FALSE, language |-> <<>>],
    [present |-> TRUE, hasLanguage |-> TRUE, language |-> En],
    [present |-> TRUE, hasLanguage |-> TRUE, language |-> Es] }

\* The voice arrays a response carries: up to MaxVoices objects, each with
\* its position as voice_id.
RECURSIVE VoiceData(_)
VoiceData(k) ==
  IF k = 0 THEN { <<>> }
  ELSE { Append(vs, [voice_id |-> k, labels |-> l]) :
           vs \in VoiceData(k - 1), l \in LabelKinds }

\* What response.json() yields: a syntax error, null, an object without
\* voices, an object whose voices is not an array, an object with voices.
JsonBodies ==
  { [kind |-> "syntax-error", voices |-> <<>>],
    [kind |-> "null", voices |-> <<>>],
    [kind |-> "no-voices", voices |-> <<>>],
    [kind |-> "voices-not-array", voices |-> <<>>] }
  \cup { [kind |-> "voices", voices |-> vs] :
           vs \in UNION { VoiceData(k) : k \in 0..MaxVoices } }

\* How the fetch of getVoices settles.
ApiResponses ==
  { [settled |-> "rejected", ok |-> FALSE, status |-> 0, statusText |-> "",
     json |-> [kind |-> "null", voices |-> <<>>]] }
  \cup { [settled |-> "resolved", ok |-> FALSE, status |-> st[1], statusText |-> st[2],
          json |-> b] :
           st \in { <<401, "Unauthorized">>, <<500, "Internal Server Error">> },
           b \in { [kind |-> "no-voices", voices |-> <<>>],
                   [kind |-> "syntax-error", voices |-> <<>>] } }
  \cup { [settled |-> "resolved", ok |-> TRUE, status |-> 200, statusText |-> "OK",
          json |-> b] : b \in JsonBodies }

\* Mutant: the status of the response is not looked at.
NotOkIgnored(res) == FALSE

\* L363: !response.ok
NotOk(res) == ~res.ok

\* L372: !data || !Array.isArray(data.voices)
InvalidFormat(data) == data.kind \in {"null", "no-voices", "voices-not-array"}

\* ElevenLabsVoiceDataSchema.parse(voice): labels is a required object, its
\* language is optional (the other fields are taken to conform).
SchemaAccepts(voice) == voice.labels.present

\* Mutant: the label is compared with the whole lang.
MatchesWholeLang(voice, lang) ==
  /\ voice.labels.present
  /\ voice.labels.hasLanguage /\ voice.labels.language = lang

\* L398: voice.labels && voice.labels.language === lang.slice(0, 2)
MatchesLanguage(voice, lang) ==
  /\ voice.labels.present
  /\ voice.labels.hasLanguage /\ voice.labels.language = Slice2(lang)

\* new ElevenLabsVoice(voice, this)
ElevenLabsVoice(voice) == [voiceData |-> voice, provider |-> "ElevenLabs"]

ListingError(name, message) ==
  [kind |-> "rejected", error |-> [name |-> name, message |-> message], voices |-> <<>>]

\* L348-404 getVoices, as a function of the provider's validateResponses
\* option, of how the fetch settles and of the arguments.
ElevenLabsGetVoices(validateResponses, res, lang, minVoices) ==
  LET data == res.json
      Matches(voice) == MatchesLanguage(voice, lang)
      voices == SelectSeq(data.voices, Matches)
      chosen == IF Len(voices) >= minVoices THEN voices ELSE data.voices
  IN  IF res.settled = "rejected"
      THEN ListingError("TypeError", <<"fetch failed">>)
      ELSE IF NotOk(res)
      THEN ListingError("Error", <<"Failed to fetch voices: ", res.status, " ",
                                   res.statusText>>)
      ELSE IF data.kind = "syntax-error"
      THEN ListingError("SyntaxError", <<"Unexpected token">>)
      ELSE IF InvalidFormat(data)
      THEN ListingError("Error", <<"Invalid response format from Eleven Labs API">>)
      ELSE IF validateResponses /\ \E i \in 1..Len(data.voices) : ~SchemaAccepts(data.voices[i])
      THEN ListingError("ZodError", <<"Required">>)
      ELSE [kind |-> "resolved", error |-> NoError,
            voices |-> [i \in 1..Len(chosen) |-> ElevenLabsVoice(chosen[i])]]

\* L357: `${this.baseUrl}/voices?language=${langCode}`, as one string.
ListingUrl(lang) ==
  CASE Slice2(lang) = En -> "/voices?language=en"
    [] Slice2(lang) = Es -> "/voices?language=es"
    [] OTHER -> "/voices?language="

\* L356-361: the url and the options getVoices passes to fetch.
ListingRequest(lang) ==
  [url |-> ListingUrl(lang), method |-> "", headers |-> <<ApiKey>>,
   additionalHeaders |-> <<>>, body |-> NoBody]

\* Mutant: the listing is fetched with cachedFetch and the provider's
\* cacheMaxAge, as the synthesis request is.
ListingFetchCached(s, request, cacheMaxAge, nowMs) ==
  LET key == CacheKey(request.url, request.method,
                      MergeHeaders(request.headers, request.additionalHeaders),
                      request.body)
  IN  IF CacheDisabled(cacheMaxAge, FALSE)
      THEN [requests |-> 1, cachedFetchCalls |-> 1, storeGets |-> 0, storePuts |-> 0,
            store |-> s]
      ELSE IF key \in DOMAIN s /\ IsFresh(s[key].timestamp, nowMs, cacheMaxAge.value)
      THEN [requests |-> 0, cachedFetchCalls |-> 1, storeGets |-> 1, storePuts |-> 0,
            store |-> s]
      ELSE [requests |-> 1, cachedFetchCalls |-> 1, storeGets |-> 1, storePuts |-> 1,
            store |-> StorePut(s, key, [Absent EXCEPT !.timestamp = nowMs])]

\* L356: await fetch(url, {headers}), the platform's fetch: one request on
\* the network whatever this.cacheMaxAge and the store are; cachedFetch and
\* IndexedDB are not involved.
ListingFetch(s, request, cacheMaxAge, nowMs) ==
  [requests |-> 1, cachedFetchCalls |-> 0, storeGets |-> 0, storePuts |-> 0,
   store |-> s]

\* provider.getVoices({lang, minVoices}) settles, on a provider constructed
\* with options.cacheMaxAge = option.
GetVoicesSettles(option, validateResponses, res, lang, minVoices) ==
  LET fetched == ListingFetch(store, ListingRequest(lang), ProviderCacheMaxAge(option), now)
  IN  /\ ~listing.called
      /\ listing' = [called |-> TRUE, validateResponses |-> validateResponses,
                     response |-> res, lang |-> lang, minVoices |-> minVoices,
                     url |-> <<"/voices?language=", Slice2(lang)>>,
                     outcome |-> ElevenLabsGetVoices(validateResponses, res, lang, minVoices),
                     cacheMaxAge |-> ProviderCacheMaxAge(option),
                     requests |-> fetched.requests,
                     cachedFetchCalls |-> fetched.cachedFetchCalls,
                     storeGets |-> fetched.storeGets, storePuts |-> fetched.storePuts]
      /\ store' = fetched.store
      /\ UNCHANGED <<now, ticks, calls>>
      /\ UNCHANGED <<norm, browser>> /\ UNCHANGED auxVars
      /\ UNCHANGED locals /\ UNCHANGED counters
      /\ UNCHANGED <<pc, result>>
      /\ UNCHANGED uttVars

\* Listings on a provider constructed without cacheMaxAge.
ListingNext ==
  \E v \in BOOLEAN, res \in ApiResponses, lang \in {EnUS, En, EsMX},
     minVoices \in 0..MaxMinVoices :
       GetVoicesSettles(Undefined, v, res, lang, minVoices)

ListingSpec == Init /\ [][ListingNext]_vars

\* ------------------------------------------- listings next to the cache
\* The responses a listing gets here: a failure, and an empty list of voices.
CacheListingResponses ==
  { res \in ApiResponses :
      \/ res.settled = "rejected"
      \/ res.ok /\ res.json = [kind |-> "voices", voices |-> <<>>] }

\* The options.cacheMaxAge values the listing provider is created with.
ListingOptions == {Undefined, Null, Num(0), Num(2)}

\* cachedFetch calls with a maxAge of one hour, for the synthesis request of
\* start() and for the very request a listing makes, and a listing made at
\* any moment between their steps.
ListCacheNext ==
  \/ \E p \in Callers, r \in Requests, o \in ConcOptions : CachedFetch(p, r, o)
  \/ \E p \in Callers : GetFromCacheSettles(p)
  \/ \E p \in Callers : FetchSettles(p)
  \/ \E p \in Callers : BlobSettles(p)
  \/ \E p \in Callers : CacheResponseSettles(p)
  \/ \E p \in Callers : FallbackFetchSettles(p)
  \/ \E option \in ListingOptions, res \in CacheListingResponses, lang \in {EnUS, EsMX} :
        GetVoicesSettles(option, FALSE, res, lang, 0)

ListCacheSpec == Init /\ [][ListCacheNext]_vars

\* ------------------------------ BrowserVoiceProvider.ensureVoicesLoaded
\* getVoices calls a page makes on the provider.
MaxGetVoices == 3

\* Mutant: every call that finds no voices sets up a wait of its own.
NeedsPromiseAlways(promise) == TRUE

\* L58: if (!this.voicesReadyPromise)
NeedsPromise(promise) == promise = "null"

\* Mutant: the timer callback does nothing.
TimerActsNever(voicesInitialized) == FALSE

\* L78: if (!this.voicesInitialized)
TimerActs(voicesInitialized) == ~voicesInitialized

\* The voice list of a platform whose voices are there.
LoadedVoices ==
  << [voiceURI |-> 1, lang |-> EnUS, default |-> TRUE],
     [voiceURI |-> 2, lang |-> FrFR, default |-> FALSE] >>

\* A getVoices({lang, minVoices}) call that has not got past its await.
NewCall(lang, minVoices) ==
  [lang |-> lang, minVoices |-> minVoices, waited |-> FALSE, status |-> "waiting",
   returned |-> <<>>]

\* L29-33: the call continues after await this.ensureVoicesLoaded() and
\* returns the voices selected from the platform's list as it is then.
Settle(l, call) ==
  [call EXCEPT !.status = "resolved",
               !.returned = BrowserGetVoices(l.synth, l.voices, call.lang, call.minVoices)]

\* resolve(): the promise is fulfilled and every call awaiting it continues
\* and resolves.
Resolve(l) ==
  [l EXCEPT !.voicesReadyPromise = "resolved",
            !.calls = [i \in 1..Len(l.calls) |->
                         IF l.calls[i].status = "waiting" THEN Settle(l, l.calls[i])
                         ELSE l.calls[i]]]

\* removeEventListener("voiceschanged", handleVoicesChanged), on behalf of by.
RemoveListener(l, by) ==
  IF l.listeners > 0
  THEN [l EXCEPT !.listeners = @ - 1, !.removed = @ + 1, !.by = by]
  ELSE l

\* L19-34 getVoices with L40-95 ensureVoicesLoaded, for a new call: the call
\* returns at once, or is left waiting for voicesReadyPromise.
EnsureVoicesLoaded(l, call) ==
  IF l.voicesInitialized
  THEN [l EXCEPT !.calls = Append(@, Settle(l, call))]
  ELSE IF ~l.synth \/ l.voices /= <<>>
  THEN [l EXCEPT !.voicesInitialized = TRUE, !.calls = Append(@, Settle(l, call))]
  ELSE IF NeedsPromise(l.voicesReadyPromise)
  THEN IF l.hasEvent
       THEN [l EXCEPT !.voicesReadyPromise = "pending",
                      !.listeners = @ + 1, !.registered = @ + 1,
                      !.timer = "armed",
                      !.calls = Append(@, [call EXCEPT !.waited = TRUE])]
       ELSE [l EXCEPT !.voicesInitialized = TRUE,
                      !.voicesReadyPromise = "resolved",
                      !.calls = Append(@, Settle(l, call))]
  ELSE IF l.voicesReadyPromise = "pending"
  THEN [l EXCEPT !.calls = Append(@, [call EXCEPT !.waited = TRUE])]
  ELSE [l EXCEPT !.calls = Append(@, Settle(l, call))]

\* L62-69 handleVoicesChanged
HandleVoicesChanged(l) ==
  Resolve(RemoveListener([l EXCEPT !.voicesInitialized = TRUE], "event"))

\* L77-86: the callback of setTimeout(..., 2000)
TimerCallback(l) ==
  IF TimerActs(l.voicesInitialized)
  THEN Resolve(RemoveListener([l EXCEPT !.voicesInitialized = TRUE], "timer"))
  ELSE l

LoaderFrame ==
  /\ UNCHANGED <<norm, browser, listing, selection, speech>>
  /\ UNCHANGED world /\ UNCHANGED locals /\ UNCHANGED counters
  /\ UNCHANGED <<pc, result>>
  /\ UNCHANGED uttVars

\* The page the provider runs in: with or without window.speechSynthesis,
\* with or without onvoiceschanged on it, its voices loaded already or not.
LoaderPageLoads(synth, hasEvent, voices) ==
  /\ loader.page = "none"
  /\ loader' = [loader EXCEPT !.page = "loaded", !.synth = synth,
                              !.hasEvent = synth /\ hasEvent,
                              !.voices = IF synth THEN voices ELSE <<>>]
  /\ LoaderFrame

\* provider.getVoices({lang, minVoices}) is called.
GetVoicesCalled(lang, minVoices) ==
  /\ loader.page = "loaded"
  /\ Len(loader.calls) < MaxGetVoices
  /\ loader' = EnsureVoicesLoaded(loader, NewCall(lang, minVoices))
  /\ LoaderFrame

\* The platform's voice list changes (voices arrive, or go away) and, where
\* the platform has the event, voiceschanged is dispatched to the listeners
\* registered at that moment.
VoicesChanged ==
  /\ loader.page = "loaded" /\ loader.synth
  /\ LET changed == [loader EXCEPT
                       !.voices = IF loader.voices = <<>> THEN LoadedVoices ELSE <<>>]
     IN  loader' = IF loader.hasEvent /\ loader.listeners > 0
                   THEN HandleVoicesChanged(changed)
                   ELSE changed
  /\ LoaderFrame

\* The 2000 ms timer set at L77 elapses.
TimerFires ==
  /\ loader.timer = "armed"
  /\ loader' = [TimerCallback(loader) EXCEPT !.timer = "fired"]
  /\ LoaderFrame

LoaderNext ==
  \/ \E synth, hasEvent \in BOOLEAN, voices \in {<<>>, LoadedVoices} :
        LoaderPageLoads(synth, hasEvent, voices)
  \/ \E lang \in {EnUS, FrFR} : GetVoicesCalled(lang, 1)
  \/ VoicesChanged
  \/ TimerFires

LoaderSpec == Init /\ [][LoaderNext]_vars

\* Timers elapse; the platform need not ever change its voice list.
LoaderLiveSpec == LoaderSpec /\ WF_vars(TimerFires)

\* ------------------------------------------------- getVoiceProvider
\* getVoiceProvider calls a program makes.
MaxProviders == 2

\* A JavaScript string value.
Str(s) == [tag |-> "string", value |-> s]

\* The options.elevenLabsApiKey values callers pass: absent, null, empty, a key.
ApiKeyOptions == {Undefined, Null, Str(""), Str("k1"), Str("k2")}

\* The options.cacheMaxAge values callers pass.
CacheMaxAgeOptions == {Undefined, Num(0), Num(3600)}

\* Mutant: any string counts as a key, the empty one too.
TruthyAnyString(value) == value.tag = "string"

\* if (options.elevenLabsApiKey): undefined, null and "" are falsy.
Truthy(value) == value.tag = "string" /\ value.value /= ""

\* export const browserVoiceProvider = new BrowserVoiceProvider(): the one
\* object of the module, object 0.
browserVoiceProvider == [name |-> "Browser", object |-> 0]

\* new ElevenLabsVoiceProvider(apiKey, baseUrl, options): a new object.
ElevenLabsVoiceProvider(object, apiKey, option) ==
  [name |-> "ElevenLabs", object |-> object, apiKey |-> apiKey,
   cacheMaxAge |-> ProviderCacheMaxAge(option)]

\* VoiceProvider.ts L162-183; created is the number of objects constructed so far.
GetVoiceProviderReturns(created, elevenLabsApiKey, cacheMaxAge) ==
  IF Truthy(elevenLabsApiKey)
  THEN ElevenLabsVoiceProvider(created + 1, elevenLabsApiKey.value, cacheMaxAge)
  ELSE browserVoiceProvider

\* The objects constructed by the calls so far.
Created(returned) ==
  Cardinality({ i \in 1..Len(returned) : returned[i].provider.object /= 0 })

\* getVoiceProvider({elevenLabsApiKey, cacheMaxAge}) returns.
GetVoiceProvider(elevenLabsApiKey, cacheMaxAge) ==
  /\ Len(selection) < MaxProviders
  /\ selection' = Append(selection,
        [elevenLabsApiKey |-> elevenLabsApiKey, cacheMaxAge |-> cacheMaxAge,
         provider |-> GetVoiceProviderReturns(Created(selection), elevenLabsApiKey,
                                              cacheMaxAge)])
  /\ UNCHANGED <<norm, browser, listing, loader, speech>>
  /\ UNCHANGED world /\ UNCHANGED locals /\ UNCHANGED counters
  /\ UNCHANGED <<pc, result>>
  /\ UNCHANGED uttVars

SelectNext ==
  \E k \in ApiKeyOptions, m \in CacheMaxAgeOptions : GetVoiceProvider(k, m)

SelectSpec == Init /\ [][SelectNext]_vars

\* ------------------------------------- BrowserSpeechSynthesisUtterance
\* Utterance objects the page has created (createUtterance, L206-208), and
\* the start() and stop() calls it makes on them.
MaxUtterances == 3
MaxSpeechOps == 4

Utterances == 1..MaxUtterances

\* speechSynthesis.speak(utterance): the platform appends the utterance to
\* the end of its queue; it is spoken when those before it are done.
Speak(queue, utterance) == Append(queue, utterance)

\* Mutant: cancel takes only the utterance stop() was called on off the queue.
CancelOwn(queue, utterance) ==
  LET Other(u) == u /= utterance
  IN  SelectSeq(queue, Other)

\* speechSynthesis.cancel(), called at L237 without an argument: the platform
\* removes every utterance from its queue and ceases speaking.
Cancel(queue, utterance) == <<>>

SpeechFrame ==
  /\ UNCHANGED <<norm, browser, listing, selection, loader>>
  /\ UNCHANGED world /\ UNCHANGED locals /\ UNCHANGED counters
  /\ UNCHANGED <<pc, result>>
  /\ UNCHANGED uttVars

\* The page the utterances live in: with or without window.speechSynthesis.
SpeechPageLoads(synth) ==
  /\ speech.page = "none"
  /\ speech' = [speech EXCEPT !.page = "loaded", !.synth = synth]
  /\ SpeechFrame

\* L228-232 start() on utterance object u
BrowserStart(u) ==
  /\ speech.page = "loaded" /\ speech.ops < MaxSpeechOps
  /\ speech' = [speech EXCEPT
                  !.queue = IF speech.synth THEN Speak(@, u) ELSE @,
                  !.ops = @ + 1, !.last = [op |-> "start", by |-> u]]
  /\ SpeechFrame

\* L235-239 stop() on utterance object u
BrowserStop(u) ==
  /\ speech.page = "loaded" /\ speech.ops < MaxSpeechOps
  /\ speech' = [speech EXCEPT
                  !.queue = IF speech.synth THEN Cancel(@, u) ELSE @,
                  !.ops = @ + 1, !.last = [op |-> "stop", by |-> u],
                  !.found = speech.queue]
  /\ SpeechFrame

\* The platform finishes the utterance it is speaking and goes on to the next.
SpeechEnds ==
  /\ speech.queue /= <<>>
  /\ speech' = [speech EXCEPT !.queue = Tail(@)]
  /\ SpeechFrame

SpeechNext ==
  \/ \E synth \in BOOLEAN : SpeechPageLoads(synth)
  \/ \E u \in Utterances : BrowserStart(u)
  \/ \E u \in Utterances : BrowserStop(u)
  \/ SpeechEnds

SpeechSpec == Init /\ [][SpeechNext]_vars

\* ------------------------------------------------------------- the claims
Done(p) == pc[p] = "done"

\* The call was made with skipCache = true, maxAge = null or maxAge = 0.
DisableSentinel(p) ==
  \/ cacheOptions[p].skipCache
  \/ cacheOptions[p].maxAge.tag = "null"
  \/ (cacheOptions[p].maxAge.tag = "number" /\ cacheOptions[p].maxAge.value = 0)

\* The lookup of the call resolved with an entry.
Found(p) == cachedResponse[p] /= Absent

\* Milliseconds between the found entry's timestamp and the lookup.
AgeMs(p) == readAt[p] - cachedResponse[p].timestamp

\* The call's promise mirrors the fetch of the catch block.
MirrorsFallback(p) ==
  /\ result[p].kind = "resolved" => result[p].response.site = "L107"
  /\ result[p].kind = "rejected" => result[p].error = NetworkError("L107")

\* C1: a call with skipCache = true, maxAge = null or maxAge = 0 issues exactly
\* one network request and never opens, reads or writes the store.
C1_DisableSentinel ==
  \A p \in Procs :
    (pc[p] /= "idle" /\ DisableSentinel(p)) =>
      /\ netCount[p] = 1
      /\ dbOpens[p] = 0 /\ storeGets[p] = 0 /\ storePuts[p] = 0
      /\ pc[p] \in {"L58", "done"}

C1_Witness ==
  \E p \in Procs :
    /\ Done(p) /\ cacheOptions[p].maxAge = Num(0)
    /\ store /= <<>> /\ result[p].kind = "resolved" /\ netCount[p] = 1

\* C2: when the lookup finds an entry with now - timestamp < maxAge, the call
\* has returned a response rebuilt from that entry (its bytes, its header map)
\* and has issued no network request.
C2_FreshHit ==
  \A p \in Procs :
    (Found(p) /\ AgeMs(p) < maxAge(p).value * 1000) =>
      /\ Done(p) /\ netCount[p] = 0
      /\ result[p].kind = "resolved"
      /\ result[p].response.site = "L80"
      /\ result[p].response.body = cachedResponse[p].blob.bytes
      /\ ObjectFromEntries(result[p].response.headers) = cachedResponse[p].headers

C2_Witness ==
  \E p \in Procs :
    /\ Done(p) /\ Found(p) /\ AgeMs(p) < maxAge(p).value * 1000
    /\ result[p].response.site = "L80"

\* C3: a found entry is served exactly while now - timestamp < maxAge; at
\* now - timestamp >= maxAge (equality included) the call goes to the network,
\* and once its fetch, body capture and write have succeeded the store holds
\* the new entry under that key.  With maxAge = 3600: served at 3599 s,
\* refetched at 3601 s.
C3_StalenessBoundary ==
  \A p \in Procs :
    Found(p) =>
      /\ (result[p].kind = "resolved" /\ result[p].response.site = "L80")
            <=> AgeMs(p) < maxAge(p).value * 1000
      /\ AgeMs(p) >= maxAge(p).value * 1000 =>
            /\ netCount[p] >= 1
            /\ (Done(p) /\ caught[p] = NoError) =>
                  /\ cacheKey[p] \in DOMAIN store
                  /\ store[cacheKey[p]].timestamp = entry[p].timestamp
                  /\ store[cacheKey[p]].from = response[p]
                  /\ store[cacheKey[p]].timestamp >= readAt[p]
      /\ (maxAge(p).value = 3600 /\ AgeMs(p) = 3599000) => netCount[p] = 0
      /\ (maxAge(p).value = 3600 /\ AgeMs(p) = 3601000) => netCount[p] >= 1

\* The boundary itself: an entry aged exactly maxAge was refetched and replaced.
C3_Witness ==
  \E p \in Procs :
    /\ Done(p) /\ Found(p) /\ AgeMs(p) = maxAge(p).value * 1000
    /\ caught[p] = NoError /\ netCount[p] = 1
    /\ store[cacheKey[p]].timestamp = entry[p].timestamp

C3_Served3599 ==
  \E p \in Procs : Found(p) /\ maxAge(p).value = 3600 /\ AgeMs(p) = 3599000 /\ Done(p)

C3_Refetched3601 ==
  \E p \in Procs : Found(p) /\ maxAge(p).value = 3600 /\ AgeMs(p) = 3601000 /\ Done(p)

\* C4 as stated: a call whose lookup happens less than maxAge after the call
\* that wrote the entry completed (its put was applied), with the store
\* working, issues no network request and returns the captured bytes and
\* header map.
C4_Original ==
  \A p \in Procs :
    (Done(p) /\ Found(p) /\ caught[p].name /= "DOMException"
       /\ readAt[p] - cachedResponse[p].putAt < maxAge(p).value * 1000) =>
      /\ netCount[p] = 0
      /\ result[p].kind = "resolved"
      /\ result[p].response.body = cachedResponse[p].from.body
      /\ ObjectFromEntries(result[p].response.headers)
           = ObjectFromEntries(cachedResponse[p].from.headers)

\* C4 amended: a call whose lookup happens less than maxAge after the
\* timestamp of the entry (taken at L98, before the writer's put) issues no
\* network request, so the writer's single fetch is the only one, and returns
\* the body bytes and header map captured from that fetch.
C4_MissThenHit ==
  \A p \in Procs :
    (Done(p) /\ Found(p) /\ AgeMs(p) < maxAge(p).value * 1000) =>
      /\ netCount[p] = 0
      /\ cachedResponse[p].from.site = "L87"
      /\ result[p].kind = "resolved"
      /\ result[p].response.body = cachedResponse[p].from.body
      /\ ObjectFromEntries(result[p].response.headers)
           = ObjectFromEntries(cachedResponse[p].from.headers)

\* A second call, made after the clock moved, served the entry the first wrote.
C4_Witness ==
  \E p \in Procs :
    /\ Done(p) /\ Found(p) /\ calls = 2 /\ netCount[p] = 0
    /\ readAt[p] > cachedResponse[p].putAt
    /\ Len(cachedResponse[p].from.headers) = 2
    /\ result[p].response.body = cachedResponse[p].from.body

\* C5: a store failure (open, get or put) never settles the call: the call
\* goes on to the fetch of the catch block and settles as that fetch does, so
\* it resolves with a network response whenever that fetch is answered.
C5_FallbackSafety ==
  \A p \in Procs :
    /\ result[p].error.name /= "DOMException"
    /\ caught[p].name = "DOMException" =>
         /\ pc[p] \in {"L107", "done"}
         /\ netCount[p] >= 1
         /\ Done(p) => (result[p].kind /= "pending" /\ MirrorsFallback(p))

C5_Witness ==
  \E p \in Procs :
    /\ Done(p) /\ caught[p] = StoreError("put")
    /\ result[p].kind = "resolved" /\ result[p].response.site = "L107"

\* C6 as stated: when the fetch of the miss path fails, the call rejects with
\* that failure and has issued no other network request.
C6_NetworkFailurePropagates ==
  \A p \in Procs :
    (Done(p) /\ caught[p] = NetworkError("L87")) =>
      /\ result[p] = Rejected(NetworkError("L87"))
      /\ netCount[p] = 1

\* C7 as stated: on a miss whose fetch succeeded the caller gets that fetch's
\* response, whatever happens to the capture and the write.
C7_Original ==
  \A p \in Procs :
    (Done(p) /\ response[p] /= NoResponse) => result[p] = Resolved(response[p])

\* C7 amended: on a miss whose fetch succeeded the caller gets that fetch's
\* response when the body capture and the store write succeed; when one of
\* them fails the caller gets the outcome of the fetch of the catch block.
C7_ReturnsOriginal ==
  \A p \in Procs :
    (Done(p) /\ response[p] /= NoResponse) =>
      IF caught[p] = NoError
      THEN result[p] = Resolved(response[p])
      ELSE result[p].kind /= "pending" /\ MirrorsFallback(p)

C7_Witness ==
  \E p \in Procs :
    /\ Done(p) /\ response[p] /= NoResponse /\ caught[p] = NoError
    /\ storePuts[p] = 1 /\ result[p] = Resolved(response[p])

\* C8 as stated: every stored entry was captured from the miss-path fetch of
\* a call, and that fetch answered with a 2xx status.
C8_OnlySuccessfulFetches ==
  \A k \in DOMAIN store :
    /\ store[k].from.site = "L87"
    /\ store[k].from.status \in 200..299

\* C9 as stated: a response served from the cache has the status of the
\* network response it was captured from.
C9_StatusPreserved ==
  \A p \in Procs :
    (Done(p) /\ result[p].kind = "resolved" /\ result[p].response.site = "L80") =>
      result[p].response.status = cachedResponse[p].from.status

\* The name/value pairs of a headers object, order forgotten.
PairSet(o) == {o[i] : i \in 1..Len(o)}

\* C10 as stated: two requests with the same url, effective method and body
\* whose headers hold the same name/value pairs get the same key.
C10_KeyDeterminism ==
  \A p, q \in Procs :
    (/\ pc[p] /= "idle" /\ pc[q] /= "idle"
     /\ args[p].url = args[q].url
     /\ EffectiveMethod(args[p].method) = EffectiveMethod(args[q].method)
     /\ args[p].body = args[q].body
     /\ PairSet(headers[p]) = PairSet(headers[q]))
    => cacheKey[p] = cacheKey[q]

\* C11 as stated: two requests that differ in url, effective method, header
\* set or body get different keys.
C11_KeyDistinctness ==
  \A p, q \in Procs :
    (/\ pc[p] /= "idle" /\ pc[q] /= "idle"
     /\ \/ args[p].url /= args[q].url
        \/ EffectiveMethod(args[p].method) /= EffectiveMethod(args[q].method)
        \/ PairSet(headers[p]) /= PairSet(headers[q])
        \/ args[p].body /= args[q].body)
    => cacheKey[p] /= cacheKey[q]

\* The call returned the response rebuilt from the entry it found.
Served(p) == result[p].kind = "resolved" /\ result[p].response.site = "L80"

\* C13: a call that omits cacheOptions.maxAge goes through the cache with a
\* maxAge of 3600 s: an entry aged under 3600 s is served, one aged 3600 s or
\* more is refetched.
C13_DefaultTTL ==
  \A p \in Procs :
    (pc[p] /= "idle" /\ cacheOptions[p].maxAge.tag = "undefined"
       /\ ~cacheOptions[p].skipCache) =>
      /\ pc[p] /= "L58"
      /\ pc[p] /= "L74" => dbOpens[p] >= 1
      /\ Found(p) => (Served(p) <=> AgeMs(p) < 3600 * 1000)
      /\ (Found(p) /\ AgeMs(p) >= 3600 * 1000) => netCount[p] >= 1

\* An entry aged exactly 3600 s was refetched by a call without maxAge.
C13_Witness ==
  \E p \in Procs :
    /\ Done(p) /\ cacheOptions[p].maxAge.tag = "undefined"
    /\ Found(p) /\ AgeMs(p) = 3600 * 1000 /\ netCount[p] = 1 /\ ~Served(p)

C13_Served3599 ==
  \E p \in Procs :
    /\ Done(p) /\ cacheOptions[p].maxAge.tag = "undefined"
    /\ Found(p) /\ AgeMs(p) = 3599000 /\ Served(p)

\* The call missed on a cold cache and nothing failed in it.
CleanMiss(p) ==
  /\ Done(p) /\ ~Found(p) /\ storeGets[p] = 1 /\ caught[p] = NoError
  /\ ~DisableSentinel(p)

\* C14: two calls for the same key that both miss on a cold cache each issue
\* their own network request and each write the store; afterwards the key
\* holds one entry, that of the put applied last, and each caller has the
\* response of its own request.
C14_SameKeyConcurrency ==
  \A p, q \in Procs :
    (p /= q /\ CleanMiss(p) /\ CleanMiss(q) /\ cacheKey[p] = cacheKey[q]) =>
      /\ netCount[p] = 1 /\ netCount[q] = 1
      /\ storePuts[p] = 1 /\ storePuts[q] = 1
      /\ result[p] = Resolved(response[p]) /\ result[q] = Resolved(response[q])
      /\ {entry[p].version, entry[q].version} = {1, 2}
      /\ cacheKey[p] \in DOMAIN store
      /\ store[cacheKey[p]].version = 2
      /\ store[cacheKey[p]] \in {entry[p], entry[q]}

\* Both callers missed the same key and got different answers.
C14_Witness ==
  \E p, q \in Procs :
    /\ p /= q /\ CleanMiss(p) /\ CleanMiss(q) /\ cacheKey[p] = cacheKey[q]
    /\ response[p].status /= response[q].status
    /\ store[cacheKey[p]] = entry[q] /\ entry[q].version = 2

\* Whatever the other callers are suspended at, a caller can take its next step.
C15_Schedulable ==
  \A q \in Procs :
    /\ (pc[q] \in {"idle", "done"} /\ calls < MaxCalls) =>
          ENABLED (\E r \in Requests, o \in ConcOptions : CachedFetch(q, r, o))
    /\ pc[q] = "L74" => ENABLED GetFromCacheSettles(q)
    /\ pc[q] = "L87" => ENABLED FetchSettles(q)
    /\ pc[q] = "L94" => ENABLED BlobSettles(q)
    /\ pc[q] = "L97" => ENABLED CacheResponseSettles(q)
    /\ pc[q] = "L107" => ENABLED FallbackFetchSettles(q)

\* A step changes the entry of a key only as the put of a call for that key.
C15_Frame ==
  \A k \in DOMAIN store :
    \/ (k \in DOMAIN store' /\ store'[k] = store[k])
    \/ \E p \in Procs : pc[p] = "L97" /\ pc'[p] = "done" /\ cacheKey[p] = k

\* C15: no call holds a lock: while a call is suspended at its store read,
\* fetch, body capture or store write, another call can start and take every
\* one of its steps, and no call changes the entry of another call's key.
C15_IndependentScheduling == [](C15_Schedulable) /\ [][C15_Frame]_vars

\* A call for another key began while a call was suspended at its store
\* write, and completed, write included, while that call is still suspended.
C15_Witness ==
  \E p, q \in Procs :
    /\ pc[p] = "L97" /\ CleanMiss(q) /\ cacheKey[q] /= cacheKey[p]
    /\ overlapped[q] = {"L97"} /\ storePuts[q] = 1
    /\ cacheKey[q] \in DOMAIN store /\ cacheKey[p] \notin DOMAIN store

\* A step removes no key, and changes an entry only by the put of a later
\* miss-path fetch.
C16_Step ==
  /\ DOMAIN store \subseteq DOMAIN store'
  /\ \A k \in DOMAIN store :
       store'[k] /= store[k] =>
         /\ store'[k].from.site = "L87"
         /\ store'[k].version = store[k].version + 1
         /\ store'[k].timestamp >= store[k].timestamp

\* C16: the set of keys in the store never shrinks; an entry, stale or not,
\* stays until a later fetch for its key is written over it.
C16_NoDeletion == [][C16_Step]_vars

\* A stale entry is still in the store after its refetch failed.
C16_Witness ==
  \E p \in Procs :
    /\ Done(p) /\ Found(p) /\ AgeMs(p) >= maxAge(p).value * 1000
    /\ caught[p] /= NoError
    /\ store[cacheKey[p]] = cachedResponse[p]

\* C17: a cache hit leaves the store as it was: the key still holds the entry
\* that was served, with the timestamp it was written with.
C17_HitLeavesStore ==
  \A p \in Procs :
    (Done(p) /\ Served(p)) =>
      /\ cacheKey[p] \in DOMAIN store
      /\ store[cacheKey[p]] = cachedResponse[p]
      /\ store[cacheKey[p]].timestamp <= store[cacheKey[p]].putAt
      /\ storePuts[p] = 0

\* An entry was served some time after it was written.
C17_Witness ==
  \E p \in Procs :
    /\ Done(p) /\ Served(p) /\ AgeMs(p) > 0
    /\ store[cacheKey[p]].timestamp = cachedResponse[p].timestamp

\* C18: a lookup for a key the store does not hold raises nothing; the call
\* goes on to one network request and then one store write.
C18_MissingKeyIsNormal ==
  \A p \in Procs :
    /\ caught[p].name /= "NotFoundError"
    /\ (pc[p] \in {"L87", "L94", "L97"} /\ ~Found(p)) =>
          /\ caught[p] = NoError /\ storeGets[p] = 1 /\ netCount[p] = 1
          /\ cacheKey[p] \notin DOMAIN store
    /\ CleanMiss(p) =>
          /\ netCount[p] = 1 /\ storePuts[p] = 1
          /\ result[p] = Resolved(response[p])
          /\ cacheKey[p] \in DOMAIN store /\ store[cacheKey[p]] = entry[p]

\* A call on an empty store completed by the miss path.
C18_Witness ==
  \E p \in Procs :
    /\ CleanMiss(p) /\ calls = 1 /\ storePuts[p] = 1 /\ netCount[p] = 1

\* C12: for a provider created with cacheMaxAge null or 0, no start() of its
\* utterances opens, reads or writes the store, and each start() issues a
\* network request.
C12_ProviderDisable ==
  (utt.created /\ utt.option \in {Null, Num(0)}) =>
    \A p \in Procs :
      upc[p] /= "none" =>
        /\ dbOpens[p] = 0 /\ storeGets[p] = 0 /\ storePuts[p] = 0
        /\ pc[p] = "done" => netCount[p] >= 1

\* C19: once stop() has been called and start() has not been called since,
\* neither the start nor the end callback is invoked.
C19_NoCallbackAfterStop == afterStop = {}

\* C20: after stop(), no Audio element created by an earlier start() is
\* playing, and no AudioContext created by an earlier start() is open.
C20_StopReleases ==
  stopAt >= 0 =>
    /\ \A id \in DOMAIN audios :
         id <= stopAt => audios[id] /= "playing"
    /\ \A id \in DOMAIN contexts :
         id <= stopAt => contexts[id] /= "running"

\* A start event: an element begins to play, or a source is started.
StartEvent ==
  \/ \E id \in DOMAIN audios : audios[id] = "loading" /\ audios'[id] = "playing"
  \/ DOMAIN sources' /= DOMAIN sources

\* An end event: a playing element or a playing source reaches its end.
EndEvent ==
  \/ \E id \in DOMAIN audios : audios[id] = "playing" /\ audios'[id] = "ended"
  \/ \E id \in DOMAIN sources :
        sources[id].state = "playing" /\ sources'[id].state = "ended"

C21_Step ==
  /\ StartEvent =>
       invoked' = IF assigned.start /= 0
                  THEN [kind |-> "start", cb |-> assigned.start] ELSE invoked
  /\ EndEvent =>
       invoked' = IF assigned.end /= 0
                  THEN [kind |-> "end", cb |-> assigned.end] ELSE invoked
  /\ (~StartEvent /\ ~EndEvent) => invoked' = invoked

\* C21: when a start or end event of the utterance fires, the callback
\* invoked is the one most recently assigned to onstart / onend (none if
\* none was assigned), and no callback is invoked at any other moment.
C21_LastWriteWins == [][C21_Step]_vars

\* An end event invoked callback 2 while onstart holds another callback.
C21_Witness ==
  /\ invoked = [kind |-> "end", cb |-> 2]
  /\ assigned = [start |-> 1, end |-> 2]

\* The errors of the normalized path after the body was read.
NormalizationErrors ==
  { UtteranceError("Error", "L618"), UtteranceError("TypeError", "L621"),
    UtteranceError("EncodingError", "L621"), UtteranceError("TypeError", "L624"),
    UtteranceError("InvalidStateError", "L631") }

C22_Inv ==
  /\ utt.normalizeVolume => audios = <<>>
  /\ \A p \in Procs :
       (upc[p] = "rejected" /\ thrown[p] \in NormalizationErrors) =>
         /\ utt.normalizeVolume
         /\ inv[p] \notin DOMAIN sources

C22_Step ==
  \A p \in Procs :
    (upc[p] \in {"L618", "L621"} /\ upc'[p] /= upc[p]) =>
      \/ upc[p] = "L618" /\ upc'[p] = "L621" /\ UNCHANGED <<sources, invoked, afterStop>>
      \/ /\ upc[p] = "L621" /\ upc'[p] = "returned"
         /\ inv[p] \in DOMAIN sources' /\ sources'[inv[p]].buffer = "normalized"
      \/ /\ upc'[p] = "rejected" /\ thrown'[p] \in NormalizationErrors
         /\ UNCHANGED <<audios, sources, invoked, afterStop>>

\* C22: with normalizeVolume on, a failure to decode or normalize makes
\* start() reject with that error; no Audio element is ever created for the
\* payload, no source is started for it and no callback is invoked by it.
C22_NormalizationErrorsFatal == [](C22_Inv) /\ [][C22_Step]_vars

\* A start() rejected with the decoder's error.
C22_Witness ==
  \E p \in Procs :
    /\ upc[p] = "rejected" /\ thrown[p] = UtteranceError("EncodingError", "L621")
    /\ utt.normalizeVolume /\ audios = <<>> /\ inv[p] \notin DOMAIN sources

\* C23: the payload goes through the normalization pipeline (normalized
\* buffer, compressor, limiter, gain, output) exactly when normalizeVolume
\* is true; when it is false no AudioContext is created and the payload is
\* played by an Audio element.
C23_NormalizationRouting ==
  /\ utt.normalizeVolume =>
       /\ audios = <<>>
       /\ \A id \in DOMAIN sources :
            /\ sources[id].buffer = "normalized"
            /\ sources[id].chain =
                 <<"source", "compressor", "limiter", "gain", "destination">>
            /\ sources[id].ctx \in DOMAIN contexts
       /\ \A p \in Procs : upc[p] = "returned" => inv[p] \in DOMAIN sources
  /\ ~utt.normalizeVolume =>
       /\ contexts = <<>> /\ sources = <<>>
       /\ \A p \in Procs : upc[p] = "returned" => inv[p] \in DOMAIN audios

\* A normalized playback is going on.
C23_Witness ==
  \E id \in DOMAIN sources :
    /\ utt.normalizeVolume /\ sources[id].state = "playing"
    /\ contexts[sources[id].ctx] = "running"

C23_WitnessPlain ==
  \E id \in DOMAIN audios : ~utt.normalizeVolume /\ audios[id] = "playing"

\* The buffer with only channel c of the given buffer.
Mono(buffer, c) == [buffer EXCEPT !.channels = << buffer.channels[c] >>]

\* C24: the result of normalization is a new buffer with the channel count,
\* length and sample rate of the input; each channel's result depends on that
\* channel alone; the input buffer is as it was.
C24_PureShapePreserving ==
  norm.called =>
    /\ Len(norm.output.channels) = Len(norm.input.channels)
    /\ norm.output.sampleRate = norm.input.sampleRate
    /\ \A c \in 1..Len(norm.input.channels) :
         /\ ChannelLength(norm.output.channels[c]) = ChannelLength(norm.input.channels[c])
         /\ norm.output.channels[c] =
              NormalizeAudioBuffer(Mono(norm.input, c)).channels[1]
    /\ norm.inputAfter = norm.input

\* A two-channel buffer whose channels got different gains was changed by
\* normalization.
C24_Witness ==
  /\ norm.called /\ Len(norm.input.channels) = 2
  /\ norm.gains[1] /= norm.gains[2]
  /\ norm.output /= norm.input /\ norm.inputAfter = norm.input

\* C25: every output sample lies in [-1, 1]; a sample whose gained magnitude
\* is at most 0.8 is output as input * gain; a larger one is output with a
\* magnitude above 0.8 and below its gained magnitude, with its sign.
C25_ClippingGuarantee ==
  norm.called =>
    \A c \in 1..Len(norm.input.channels) :
      \A i \in 1..Len(norm.input.channels[c]) :
        LET g == Gained(norm.input.channels[c][i].v, norm.gains[c])
            out == norm.output.channels[c][i].v
        IN  /\ -1000 <= out /\ out <= 1000
            /\ Abs(g) <= 800 => out = g
            /\ g > 800 => (800 <= out /\ out < g)
            /\ g < -800 => (out <= -800 /\ g < out)

\* A sample far above 1.0 after the gain came out as exactly 1.0, and a
\* sample just above 0.8 came out between 0.8 and 1.0.
C25_Witness ==
  /\ norm.called
  /\ \E c \in 1..Len(norm.input.channels) :
       \E i \in 1..Len(norm.input.channels[c]) :
          /\ Gained(norm.input.channels[c][i].v, norm.gains[c]) > 5000
          /\ norm.output.channels[c][i].v = 1000
  /\ \E c \in 1..Len(norm.input.channels) :
       \E i \in 1..Len(norm.input.channels[c]) :
          /\ Gained(norm.input.channels[c][i].v, norm.gains[c]) \in 801..1200
          /\ norm.output.channels[c][i].v \in 801..999

AllZero(channel) == \A i \in 1..Len(channel) : channel[i].v = 0

\* C26: a channel whose samples are all zero gets gain 1 and comes out all
\* zero.
C26_Silence ==
  norm.called =>
    \A c \in 1..Len(norm.input.channels) :
      AllZero(norm.input.channels[c]) =>
        /\ norm.gains[c] = [num |-> 1, den |-> 1]
        /\ AllZero(norm.output.channels[c])

\* An all-zero buffer of two channels was normalized.
C26_Witness ==
  /\ norm.called /\ Len(norm.input.channels) = 2
  /\ \A c \in 1..2 : AllZero(norm.input.channels[c]) /\ AllZero(norm.output.channels[c])

\* The positions of the platform voices whose lang satisfies each test.
ExactSet == { i \in 1..Len(browser.voices) : browser.voices[i].lang = browser.lang }
BaseSet ==
  { i \in 1..Len(browser.voices) :
      RemoveRegion(browser.voices[i].lang) = RemoveRegion(browser.lang) }
PrefixSet ==
  { i \in 1..Len(browser.voices) :
      /\ Len(browser.voices[i].lang) >= Len(Slice2(browser.lang))
      /\ \A k \in 1..Len(Slice2(browser.lang)) :
            browser.voices[i].lang[k] = browser.lang[k] }
AllSet == 1..Len(browser.voices)

\* The first candidate set with at least minVoices members.
SelectedSet ==
  IF Cardinality(ExactSet) >= browser.minVoices THEN ExactSet
  ELSE IF Includes(browser.lang, "-") /\ Cardinality(BaseSet) >= browser.minVoices
       THEN BaseSet
  ELSE IF Cardinality(PrefixSet) >= browser.minVoices THEN PrefixSet
  ELSE AllSet

\* C27: getVoices returns, in platform order, the voices of the first
\* candidate set (exact lang, base language if lang has a "-", two-character
\* prefix, all voices) that has at least minVoices members; so it returns at
\* least minVoices voices when the platform has that many.
C27_SelectionCascade ==
  browser.called = "getVoices" =>
    LET returned == browser.returned
    IN  /\ { returned[i].voice.voiceURI : i \in 1..Len(returned) } = SelectedSet
        /\ \A i, j \in 1..Len(returned) :
              i < j => returned[i].voice.voiceURI < returned[j].voice.voiceURI
        /\ \A i \in 1..Len(returned) :
              /\ returned[i].voice = browser.voices[returned[i].voice.voiceURI]
              /\ returned[i].lang = returned[i].voice.lang
        /\ Len(browser.voices) >= browser.minVoices =>
              Len(returned) >= browser.minVoices

\* The base-language candidates were returned: the exact matches were too
\* few, and the prefix candidates are a larger set.
C27_Witness ==
  /\ browser.called = "getVoices" /\ browser.minVoices = 2
  /\ Cardinality(ExactSet) = 1 /\ SelectedSet = BaseSet
  /\ BaseSet /= PrefixSet /\ BaseSet /= ExactSet
  /\ Len(browser.returned) = 2

C27_WitnessAll ==
  /\ browser.called = "getVoices" /\ browser.minVoices = 1
  /\ PrefixSet = {} /\ Len(browser.returned) = 3

\* C28: getDefaultVoice returns the first default voice among those
\* getVoices({lang, minVoices: 1}) selects, the first selected voice if none
\* is default, and null exactly when none is selected.
C28_DefaultVoice ==
  browser.called = "getDefaultVoice" =>
    LET selected == BrowserGetVoices(browser.synth, browser.voices, browser.lang, 1)
        defaults == { i \in 1..Len(selected) : selected[i].voice.default }
    IN  /\ defaults /= {} =>
              \E i \in defaults :
                 /\ browser.returned = selected[i]
                 /\ \A j \in defaults : i <= j
        /\ (defaults = {} /\ selected /= <<>>) => browser.returned = selected[1]
        /\ browser.returned = Null <=> selected = <<>>

\* The default voice returned is not the first of the selected voices.
C28_Witness ==
  /\ browser.called = "getDefaultVoice"
  /\ browser.returned /= Null
  /\ browser.returned.isDefault
  /\ browser.returned /=
       BrowserGetVoices(browser.synth, browser.voices, browser.lang, 1)[1]

C28_WitnessNull ==
  /\ browser.called = "getDefaultVoice" /\ browser.synth /\ browser.returned = Null

\* The response is ok and carries a voices array.
WellFormed == listing.response.settled = "resolved" /\ listing.response.ok
              /\ listing.response.json.kind = "voices"

\* The positions of the response's voices whose language label is the first
\* two characters of lang.
LabelMatches ==
  { i \in 1..Len(listing.response.json.voices) :
      LET l == listing.response.json.voices[i].labels
      IN  /\ l.present /\ l.hasLanguage
          /\ Len(l.language) = Len(Slice2(listing.lang))
          /\ \A k \in 1..Len(l.language) : l.language[k] = listing.lang[k] }

\* The outcome is the list of exactly the matching voices if there are at
\* least minVoices of them, else of all voices, in the response's order.
ExpectedListing ==
  LET all == listing.response.json.voices
      want == IF Cardinality(LabelMatches) >= listing.minVoices
              THEN LabelMatches ELSE 1..Len(all)
      got == listing.outcome.voices
  IN  /\ listing.outcome.kind = "resolved"
      /\ { got[i].voiceData.voice_id : i \in 1..Len(got) } = want
      /\ \A i, j \in 1..Len(got) :
            i < j => got[i].voiceData.voice_id < got[j].voiceData.voice_id
      /\ \A i \in 1..Len(got) : got[i].voiceData = all[got[i].voiceData.voice_id]

C29_WitnessMatching ==
  /\ listing.called /\ WellFormed /\ listing.lang = EnUS /\ listing.minVoices = 1
  /\ Len(listing.response.json.voices) = 3 /\ Cardinality(LabelMatches) = 1
  /\ Len(listing.outcome.voices) = 1

\* C30: a response that is not ok makes getVoices reject with "Failed to
\* fetch voices: <status> <statusText>"; an ok response whose JSON is null or
\* has no voices array makes it reject with "Invalid response format from
\* Eleven Labs API"; no list is returned in either case.
C30_ErrorOutcomes ==
  listing.called =>
    LET res == listing.response
    IN  /\ (res.settled = "resolved" /\ ~res.ok) =>
              /\ listing.outcome.kind = "rejected"
              /\ listing.outcome.error.name = "Error"
              /\ listing.outcome.error.message =
                   <<"Failed to fetch voices: ", res.status, " ", res.statusText>>
              /\ listing.outcome.voices = <<>>
        /\ (/\ res.settled = "resolved" /\ res.ok
            /\ res.json.kind \in {"null", "no-voices", "voices-not-array"}) =>
              /\ listing.outcome.kind = "rejected"
              /\ listing.outcome.error.name = "Error"
              /\ listing.outcome.error.message =
                   <<"Invalid response format from Eleven Labs API">>
              /\ listing.outcome.voices = <<>>

\* getVoices rejected on a 401 whose body is not JSON.
C30_Witness ==
  /\ listing.called /\ listing.response.status = 401
  /\ listing.response.json.kind = "syntax-error"
  /\ listing.outcome.kind = "rejected"
  /\ listing.outcome.error.message[1] = "Failed to fetch voices: "

C30_WitnessNull ==
  /\ listing.called /\ listing.response.ok /\ listing.response.json.kind = "null"
  /\ listing.outcome.error.message = <<"Invalid response format from Eleven Labs API">>

\* The call found an entry that was stale for it.
FoundStale(p) == Found(p) /\ AgeMs(p) >= EffectiveMaxAge(cacheOptions[p].maxAge).value * 1000

\* C32: an invocation issues at most two network requests; one that has
\* completed issued none only if it served a fresh entry; it issues a second
\* one only after its first request failed, or after the body capture or the
\* store write (open or put) failed following a first request that succeeded.
\* A failure to open or read the store leads to the first request.
C32_RequestCount ==
  \A p \in Procs :
    /\ netCount[p] <= 2
    /\ (Done(p) /\ netCount[p] = 0) =>
          /\ Served(p) /\ Found(p)
          /\ AgeMs(p) < EffectiveMaxAge(cacheOptions[p].maxAge).value * 1000
    /\ netCount[p] = 2 =>
          \/ caught[p] = NetworkError("L87")
          \/ caught[p] = NetworkError("L94") /\ response[p] /= NoResponse
          \/ /\ caught[p] \in {StoreError("getDB"), StoreError("put")}
             /\ dbOpens[p] = 2 /\ response[p] /= NoResponse /\ entry[p] /= Absent
    /\ (caught[p] /= NoError /\ dbOpens[p] = 1 /\ response[p] = NoResponse
          /\ caught[p] /= NetworkError("L87")) => netCount[p] = 1

\* A call made two requests because its store write failed.
C32_Witness ==
  \E p \in Procs :
    /\ Done(p) /\ netCount[p] = 2 /\ caught[p] = StoreError("put")
    /\ result[p].kind = "resolved"

C32_WitnessReadFailure ==
  \E p \in Procs :
    /\ Done(p) /\ netCount[p] = 1 /\ caught[p] = StoreError("get") /\ storeGets[p] = 1

\* C33: whether a found entry is served depends on its timestamp, the time of
\* the lookup and the maxAge of the reading call, whatever the maxAge of the
\* call that wrote it: it is served exactly if its age is below the reader's
\* maxAge.
C33_ReadersMaxAge ==
  \A p \in Procs :
    Found(p) =>
      (Served(p) <=>
         readAt[p] - cachedResponse[p].timestamp
            < EffectiveMaxAge(cacheOptions[p].maxAge).value * 1000)

\* An entry written by a call with maxAge 2 was served, 2 s old, to a call
\* with maxAge 3600.
C33_Witness ==
  \E p \in Procs :
    /\ Done(p) /\ Found(p) /\ Served(p)
    /\ cachedResponse[p].writtenWith = 2 /\ AgeMs(p) = 2000
    /\ cacheOptions[p].maxAge = Num(3600)

\* An entry written by a call with maxAge 3600 was refetched, 2 s old, by a
\* call with maxAge 2.
C33_WitnessSmaller ==
  \E p \in Procs :
    /\ Done(p) /\ Found(p) /\ ~Served(p)
    /\ cachedResponse[p].writtenWith = 3600 /\ AgeMs(p) = 2000
    /\ cacheOptions[p].maxAge = Num(2)

\* C34: when the call found a stale entry and its network request failed, the
\* entry is not served, the call writes nothing and the key still holds the
\* entry as it was found; with the request of the catch block failing too, the
\* call rejects.
C34_FailedRefetch ==
  \A p \in Procs :
    (FoundStale(p) /\ caught[p] = NetworkError("L87")) =>
      /\ ~Served(p)
      /\ storePuts[p] = 0 /\ entry[p] = Absent
      /\ cacheKey[p] \in DOMAIN store
      /\ store[cacheKey[p]] = cachedResponse[p]
      /\ (Done(p) /\ result[p].kind = "resolved") => result[p].response.site = "L107"
      /\ (Done(p) /\ result[p].kind /= "resolved") => result[p] = Rejected(NetworkError("L107"))

\* The refetch of a stale entry failed twice and the call rejected.
C34_Witness ==
  \E p \in Procs :
    /\ Done(p) /\ FoundStale(p) /\ caught[p] = NetworkError("L87")
    /\ result[p].kind = "rejected" /\ netCount[p] = 2
    /\ store[cacheKey[p]] = cachedResponse[p]

C31_WitnessElevenLabs ==
  \E i \in 1..Len(selection) :
    /\ selection[i].elevenLabsApiKey = Str("k1")
    /\ selection[i].provider.name = "ElevenLabs"

\* The callbacks invoked so far for the playback of invocation id.
EventsOf(id) == IF id \in DOMAIN events THEN events[id] ELSE <<>>

\* C35: for the playback of every start() invocation, on the plain and on the
\* normalized path, the end callback is invoked at most once, no callback is
\* invoked after it, and the start callback at most once before it; an end
\* callback is invoked only for a playback that has begun and reached its end.
C35_CallbackOrdering ==
  \A id \in Invocations :
    LET log == EventsOf(id)
        ends == { i \in 1..Len(log) : log[i] = "end" }
    IN  /\ Cardinality(ends) <= 1
        /\ \A i \in ends : i = Len(log)
        /\ Cardinality({ i \in 1..Len(log) : log[i] = "start" }) <= 1
        /\ ends /= {} =>
              \/ id \in DOMAIN audios /\ audios[id] = "ended"
              \/ id \in DOMAIN sources /\ sources[id].state = "ended"

\* Two playbacks of one utterance, each with its start callback and then its
\* end callback invoked, on the plain path.
C35_Witness ==
  /\ ~utt.normalizeVolume
  /\ \A id \in Invocations :
        id \in DOMAIN audios /\ EventsOf(id) = <<"start", "end">>

C35_WitnessNormalized ==
  \E id \in Invocations :
    /\ id \in DOMAIN sources /\ EventsOf(id) = <<"start", "end">>

\* The contexts that go from running to closed in this step.
ClosedNow == { c \in DOMAIN contexts : contexts[c] = "running" /\ contexts'[c] = "closed" }

\* The sources whose ended event is handled in this step.
EndedNow == { id \in DOMAIN sources : sources[id].state = "playing"
                                      /\ sources'[id].state = "ended" }

\* A closed context stays closed (close() is not called on it again), and the
\* end of a playback closes no context but the one its source was created on.
C38_Step ==
  /\ \A c \in DOMAIN contexts : contexts[c] = "closed" => contexts'[c] = "closed"
  /\ \A id \in EndedNow : ClosedNow \subseteq {sources[id].ctx}

\* C38: an AudioContext created by a start() invocation is closed by stop()
\* or by the end of the playback it was created for, and never by the end
\* event of another playback of the utterance.
C38_ContextOwnership == [][C38_Step]_vars

\* The getVoices calls that are still awaiting voicesReadyPromise.
WaitingCalls == { i \in 1..Len(loader.calls) : loader.calls[i].status = "waiting" }

\* A getVoices call made in this step, once voicesInitialized is true, has
\* resolved within the step, without waiting.
LaterCallsDoNotWait ==
  (loader.voicesInitialized /\ Len(loader'.calls) = Len(loader.calls) + 1) =>
     LET call == loader'.calls[Len(loader'.calls)]
     IN  ~call.waited /\ call.status = "resolved"

C37_WitnessTimer ==
  /\ Len(loader.calls) >= 2
  /\ loader.calls[1].waited /\ loader.calls[2].waited
  /\ WaitingCalls = {}
  /\ loader.registered = 1 /\ loader.removed = 1 /\ loader.by = "timer"

\* A getVoices call of the ElevenLabs provider settles in this step.
ListingSettlesNow == ~listing.called /\ listing'.called

\* C39: a getVoices call of the ElevenLabs provider issues exactly one
\* network request, whatever the provider's cacheMaxAge and whatever the
\* store holds; it makes no cachedFetch call, opens no database, reads and
\* writes no entry, and leaves the store as it was.
C39_ListingBypassesCache ==
  [][ListingSettlesNow =>
       /\ listing'.requests = 1
       /\ listing'.cachedFetchCalls = 0
       /\ listing'.storeGets = 0 /\ listing'.storePuts = 0
       /\ store' = store /\ calls' = calls
       /\ dbOpens' = dbOpens /\ storeGets' = storeGets /\ storePuts' = storePuts]_vars

\* The key cachedFetch would give the request of a listing for lang.
ListingKey(lang) ==
  CacheKey(ListingRequest(lang).url, "", <<ApiKey>>, NoBody)

\* A listing was made on a provider with caching on while the store held a
\* fresh entry for the very request the listing makes, and went to the
\* network all the same.
C39_Witness ==
  /\ listing.called /\ listing.lang = EnUS
  /\ listing.cacheMaxAge = Num(DefaultMaxAge)
  /\ ListingKey(EnUS) \in DOMAIN store
  /\ IsFresh(store[ListingKey(EnUS)].timestamp, now, DefaultMaxAge)
  /\ listing.requests = 1
  /\ \A p \in Callers : pc[p] = "done"

\* A listing on a provider with a cacheMaxAge of 0, with the store empty.
C39_WitnessDisabled ==
  /\ listing.called /\ listing.cacheMaxAge = Num(0)
  /\ store = <<>> /\ listing.requests = 1

\* The step is a start() or a stop() call on a browser utterance.
SpeechCall(op) == speech'.ops = speech.ops + 1 /\ speech'.last.op = op

\* C40: where the platform has a synthesizer, stop() on one utterance object
\* leaves the shared queue empty, whichever objects' utterances were being
\* spoken or waiting in it, and start() changes the queue only by adding its
\* own utterance at the end.
C40_BrowserStopIsGlobal ==
  [][/\ (SpeechCall("stop") /\ speech.synth) => speech'.queue = <<>>
     /\ (SpeechCall("start") /\ speech.synth) =>
           speech'.queue = speech.queue \o <<speech'.last.by>>]_vars

\* stop() on utterance 1 found utterance 2 being spoken and utterance 3
\* waiting, its own not in the queue, and ended both.
C40_Witness ==
  /\ speech.synth /\ speech.last = [op |-> "stop", by |-> 1]
  /\ speech.found = <<2, 3>>
  /\ speech.queue = <<>>

====
